---- MODULE Spec2Model ----
(***************************************************************************)
(* Model of the content-assistant application: the client-side retry       *)
(* wrapper (retryOperation), the editor's debounced auto-save, the inline  *)
(* change visualizer, the response parser (extractSuggestedContent), the   *)
(* assistant chat (sendToAI and the handlers that apply a suggestion), the *)
(* placement of a suggestion (interpretRequest, implementOption,           *)
(* directQuillUpdate) and the serverless functions.                        *)
(* Each component has its own specification over the shared variables;     *)
(* the variables of the other components stay at their initial values.     *)
(***************************************************************************)
EXTENDS Integers, Sequences, FiniteSets, TLC

VARIABLES
  \* ---- retryOperation (part_003:803-855) ----
  rPc,          \* "idle" | "call" | "wait" | "done"
  maxRetries,   \* parameter maxRetries
  attempt,      \* loop variable attempt
  delay,        \* local variable delay
  lastError,    \* local variable lastError (an error message, or NoError)
  calls,        \* number of times operation() was invoked
  waits,        \* sequence of the delays passed to setTimeout, in order
  failures,     \* sequence of the error messages caught, in order
  outcome,      \* "none" | "returned" | "thrown"
  thrown        \* the message of the error thrown to the caller

VARIABLES
  \* ---- editor auto-save (part_005:159-297) ----
  content,       \* quill.root.innerHTML, the editor's current content
  timerPending,  \* debounce's timeoutId refers to a timer that has not fired
  inflight,      \* the PATCH requests whose fetch() has not settled
  storeContent,  \* the Content field of the record in the record store
  saves,         \* the saves issued so far, in the order of issue
  failedSaves,   \* ids of the saves that did not succeed
  edits,         \* number of text-change events so far
  hasRecordId,   \* getRecordIdFromUrl() returns a record id
  saveStatus     \* class of the save status element: "" | "saving" | ...

VARIABLES
  \* ---- InlineChangeVisualizer (inline-change-visualizer.js:8-194) ----
  doc,             \* the editor text, without Quill's final newline
  originalContent, \* this.originalContent
  originalRange,   \* this.originalRange
  suggestedText,   \* options.suggestedText held by the accept button's handler
  changeControls,  \* the accept/reject controls are displayed
  vPc,             \* "idle" | "shown" | "applied" | "rejected": the last call
  docBefore        \* the editor text when showChanges was called

VARIABLES
  \* ---- extractSuggestedContent (part_003:1360-1564) ----
  response,   \* data.message, the text of the model's reply
  result,     \* the value returned by extractSuggestedContent
  ePc         \* "ready" | "done"

VARIABLES
  \* ---- assistant chat (part_003:22-27, 229-247, 432-798; part_004) ----
  core,                    \* which revision of the assistant core is loaded
  chatHistory,             \* chatHistory: records [role, content]
  currentlySelectedText,   \* the selected text; empty for null
  currentlySelectedRange,  \* the stored selection range, or NoRange
  lastAIMessage,           \* last assistant message offering numbered options
  singleSuggestion,        \* last assistant message with one Apply button
  cPc,                     \* "idle" | "awaiting": sendToAI awaits the network
  message,                 \* the message sendToAI was called with
  payloadSelectedText,     \* payload.selectedText
  payloadSelectionRange,   \* payload.selectionRange
  sendOutcome,             \* "none" | "returned" | "threw": how sendToAI ended
  sendResult,              \* the object sendToAI returned last
  shown,                   \* text of the last addMessage(..., false)
  turns                    \* number of user inputs handled so far

VARIABLES
  \* ---- placement of a suggestion (part_003:1654-1905) ----
  quillDoc,       \* the text of window.editorQuill, with its line ends
  updateVia,      \* which handler made the last update, or "none"
  updateOptions,  \* the options of the last directQuillUpdate call
  updateContent,  \* its newContent
  updateRequest,  \* the user request interpretRequest was given for it
  docAtUpdate,    \* the document when directQuillUpdate was called
  updateResult    \* "none" | "true" | "false": what the update returned

VARIABLES
  \* ---- serverless functions (netlify/functions) ----
  endpoint,            \* the function that was invoked, or "none"
  assistantRecords,    \* the AI Assistants table: id -> [Key, Active]
  linkedAssistantIds,  \* the 'AI Assistants' field of the content record
  assistantType,       \* the assistant key of the request
  httpResponse,        \* what the handler's promise resolved to
  providerConfig,      \* whose configuration built the provider call
  apiError             \* the error the inner catch of claude-assistant caught

VARIABLES
  \* ---- suggestions applied to the editor (applyChanges, directQuillUpdate) ----
  appliedVia,       \* "none" | "applyChanges" | "directQuillUpdate"
  appliedAt,        \* number of saves issued before the application
  domEventPending,  \* the setTimeout of the DOM 'text-change' event is armed
  vizPending        \* showChanges put a visualization into the document

VARIABLES
  \* ---- the payload of a provider request (claude-assistant.js:237-257, ----
  \* ---- 410-422; cors-handler.js:56-99)                                  ----
  modelConfig,     \* the Temperature and MaxTokens fields of the configuration
  payloadBy,       \* "none" | "claude-assistant" | "provider"
  requestPayload   \* the temperature and max_tokens of the request sent

VARIABLES
  \* ---- the debounced auto-save in time (part_005:159-173, 197-206) ----
  now,         \* the time in ms since the editor was set up
  timers,      \* the armed timers of setTimeout: records [id, due]
  timeoutId,   \* debounce's timeoutId, 0 while undefined
  eventTimes,  \* the times of the text-change events so far, in order
  editorText,  \* the revision of the editor content (one per text-change)
  autoSaves    \* the calls of updateAirtableRecord by the timer: [at, content]

retryVars == <<rPc, maxRetries, attempt, delay, lastError, calls, waits,
               failures, outcome, thrown>>

saveVars == <<content, timerPending, inflight, storeContent, saves,
              failedSaves, edits, hasRecordId, saveStatus>>

vizVars == <<doc, originalContent, originalRange, suggestedText,
             changeControls, vPc, docBefore>>

extractVars == <<response, result, ePc>>

chatVars == <<core, chatHistory, currentlySelectedText, currentlySelectedRange,
              lastAIMessage, singleSuggestion, cPc, message,
              payloadSelectedText, payloadSelectionRange, sendOutcome,
              sendResult, shown, turns>>

placeVars == <<quillDoc, updateVia, updateOptions, updateContent,
               updateRequest, docAtUpdate, updateResult>>

backendVars == <<endpoint, assistantRecords, linkedAssistantIds,
                 assistantType, httpResponse, providerConfig, apiError>>

applyVars == <<appliedVia, appliedAt, domEventPending, vizPending>>

payloadVars == <<modelConfig, payloadBy, requestPayload>>

debounceVars == <<now, timers, timeoutId, eventTimes, editorText, autoSaves>>

vars == <<retryVars, saveVars, vizVars, extractVars, chatVars, placeVars,
          backendVars, applyVars, payloadVars, debounceVars>>

----------------------------------------------------------------------------
(* retryOperation                                                          *)

\* CONFIG.MAX_RETRY_ATTEMPTS and CONFIG.RETRY_DELAY, the arguments sendToAI
\* passes to retryOperation.
MAX_RETRY_ATTEMPTS == 3
RETRY_DELAY == 1000

\* Largest maxRetries argument explored.
MaxRetriesBound == 4

\* An error message is modelled by the set of the marker substrings it
\* contains (String.prototype.includes is all the code ever asks of it).
NoError == {"<none>"}

\* Message of `new Error('Content is too large for AI processing. ...')`.
ContentTooLargeMsg == {"Content is too large for AI processing"}
\* Message of `new Error('The request timed out. ...')`.
TimedOutMsg == {"The request timed out"}

\* The messages an operation may fail with.
ErrorMessages ==
  { {}, {"token limit"}, {"max tokens"}, {"content too long"},
    {"status code 529"}, {"overloaded"}, {"rate limit"}, {"status code 429"},
    {"timeout"}, {"ETIMEDOUT"}, {"504"},
    {"timeout", "token limit"}, {"504", "overloaded"} }

includes(msg, s) == s \in msg

isTokenLimitError_MissesMaxTokens(msg) ==
  includes(msg, "token limit") \/ includes(msg, "content too long")

isTokenLimitError(msg) ==
  includes(msg, "token limit") \/ includes(msg, "max tokens")
    \/ includes(msg, "content too long")

isOverloaded(msg) ==
  includes(msg, "status code 529") \/ includes(msg, "overloaded")
    \/ includes(msg, "rate limit") \/ includes(msg, "status code 429")

isTimeout(msg) ==
  includes(msg, "timeout") \/ includes(msg, "ETIMEDOUT") \/ includes(msg, "504")

RetryIdle ==
  /\ rPc = "idle"
  /\ maxRetries = MAX_RETRY_ATTEMPTS
  /\ attempt = 0
  /\ delay = RETRY_DELAY
  /\ lastError = NoError
  /\ calls = 0
  /\ waits = <<>>
  /\ failures = <<>>
  /\ outcome = "none"
  /\ thrown = NoError

\* Entry of retryOperation(operation, maxRetries, initialDelay).
RetryStart(m) ==
  /\ rPc = "idle"
  /\ rPc' = "call"
  /\ maxRetries' = m
  /\ attempt' = 0
  /\ delay' = RETRY_DELAY
  /\ lastError' = NoError
  /\ UNCHANGED <<calls, waits, failures, outcome, thrown>>

\* The for statement's condition `attempt < maxRetries`.
LoopCondition_OffByOne(a, m) == a <= m

LoopCondition(a, m) == a < m

\* `return await operation()` resolves.
OperationSucceeds ==
  /\ rPc = "call"
  /\ LoopCondition(attempt, maxRetries)
  /\ calls' = calls + 1
  /\ rPc' = "done"
  /\ outcome' = "returned"
  /\ UNCHANGED <<maxRetries, attempt, delay, lastError, waits, failures, thrown>>

\* The delay after the catch block's backoff adjustment.
NextDelay_OverloadOnly(d, msg) == IF isOverloaded(msg) THEN d * 2 ELSE d

NextDelay(d, msg) == IF isOverloaded(msg) \/ isTimeout(msg) THEN d * 2 ELSE d

\* `await operation()` rejects with message msg: the catch block.
OperationFails(msg) ==
  /\ rPc = "call"
  /\ LoopCondition(attempt, maxRetries)
  /\ calls' = calls + 1
  /\ lastError' = msg
  /\ failures' = Append(failures, msg)
  /\ IF isTokenLimitError(msg)
       THEN /\ rPc' = "done"
            /\ outcome' = "thrown"
            /\ thrown' = ContentTooLargeMsg
            /\ UNCHANGED <<attempt, delay>>
       ELSE IF attempt < maxRetries - 1
         THEN /\ delay' = NextDelay(delay, msg)
              /\ rPc' = "wait"
              /\ UNCHANGED <<attempt, outcome, thrown>>
         ELSE /\ attempt' = attempt + 1
              /\ UNCHANGED <<rPc, delay, outcome, thrown>>
  /\ UNCHANGED <<maxRetries, waits>>

\* The setTimeout(resolve, delay) of the backoff fires; the loop continues.
BackoffElapsed ==
  /\ rPc = "wait"
  /\ waits' = Append(waits, delay)
  /\ attempt' = attempt + 1
  /\ rPc' = "call"
  /\ UNCHANGED <<maxRetries, delay, lastError, calls, failures, outcome, thrown>>

\* The loop is exhausted: the code after the for statement.
RetriesExhausted ==
  /\ rPc = "call"
  /\ ~LoopCondition(attempt, maxRetries)
  /\ rPc' = "done"
  /\ outcome' = "thrown"
  /\ thrown' = IF includes(lastError, "timeout") THEN TimedOutMsg ELSE lastError
  /\ UNCHANGED <<maxRetries, attempt, delay, lastError, calls, waits, failures>>

----------------------------------------------------------------------------
(* Editor auto-save: setupEditorControls, debounce, updateAirtableRecord   *)

\* The contents the editor can hold.
ContentValues == {"v0", "v1", "v2"}

\* Bounds on the number of text-change events and of saves explored.
MaxEdits == 3
MaxSaves == 3

SaveIdle ==
  /\ content = "v0"
  /\ timerPending = FALSE
  /\ inflight = {}
  /\ storeContent = "v0"
  /\ saves = <<>>
  /\ failedSaves = {}
  /\ edits = 0
  /\ hasRecordId = TRUE
  /\ saveStatus = ""

\* updateAirtableRecord up to its `await fetch(...)`: with a record id the
\* PATCH carrying the current content is sent; without one it returns.
IssueSave(auto) ==
  IF hasRecordId
    THEN /\ saveStatus' = "saving"
         /\ saves' = Append(saves, [content |-> content, auto |-> auto])
         /\ inflight' = inflight \cup
              {[id |-> Len(saves) + 1, content |-> content, auto |-> auto,
                state |-> "sent"]}
    ELSE /\ saveStatus' = "save-error"
         /\ UNCHANGED <<saves, inflight>>

\* quill.on('text-change'): the user edits, the debounced update is re-armed
\* (clearTimeout, then setTimeout).
TextChange(c) ==
  /\ edits < MaxEdits
  /\ c # content
  /\ content' = c
  /\ edits' = edits + 1
  /\ timerPending' = TRUE
  /\ saveStatus' = "saving"
  /\ UNCHANGED <<inflight, storeContent, saves, failedSaves, hasRecordId>>

\* The debounce timer fires AUTOSAVE_DELAY after the last text-change and
\* calls updateAirtableRecord.
DebounceFires ==
  /\ timerPending
  /\ Len(saves) < MaxSaves
  /\ timerPending' = FALSE
  /\ IssueSave(TRUE)
  /\ UNCHANGED <<content, storeContent, failedSaves, edits, hasRecordId>>

\* Ctrl/Cmd+S: the keydown handler calls updateAirtableRecord directly.
ManualSave ==
  /\ Len(saves) < MaxSaves
  /\ IssueSave(FALSE)
  /\ UNCHANGED <<content, timerPending, storeContent, failedSaves, edits,
                 hasRecordId>>

\* The record store receives a PATCH and writes its Content field.
StoreApplies(r) ==
  /\ r \in inflight
  /\ r.state = "sent"
  /\ storeContent' = r.content
  /\ inflight' = (inflight \ {r}) \cup {[r EXCEPT !.state = "applied"]}
  /\ UNCHANGED <<content, timerPending, saves, failedSaves, edits, hasRecordId,
                 saveStatus>>

\* The fetch of an applied PATCH resolves with response.ok.
SaveResponseOk(r) ==
  /\ r \in inflight
  /\ r.state = "applied"
  /\ inflight' = inflight \ {r}
  /\ saveStatus' = "saved"
  /\ UNCHANGED <<content, timerPending, storeContent, saves, failedSaves,
                 edits, hasRecordId>>

\* The PATCH is refused or the connection fails: the `else` branch or the
\* catch block of updateAirtableRecord; the record is not written.
SaveFails(r) ==
  /\ r \in inflight
  /\ r.state = "sent"
  /\ inflight' = inflight \ {r}
  /\ failedSaves' = failedSaves \cup {r.id}
  /\ saveStatus' = "save-error"
  /\ UNCHANGED <<content, timerPending, storeContent, saves, edits, hasRecordId>>

\* updateSaveStatus' timeout of 3000 ms for 'saved' and 'save-error': the
\* indicator is blanked.
StatusCleared ==
  /\ saveStatus \in {"saved", "save-error"}
  /\ saveStatus' = ""
  /\ UNCHANGED <<content, timerPending, inflight, storeContent, saves,
                 failedSaves, edits, hasRecordId>>

----------------------------------------------------------------------------
(* InlineChangeVisualizer                                                  *)

\* The characters of the editor text and the bounds on the texts explored.
DocChars == {"a", "b"}
MaxDocLen == 3
MaxSuggestedLen == 2

\* this.originalRange before showChanges.
NoRange == [index |-> -1, length |-> -1]

Min(a, b) == IF a < b THEN a ELSE b

SeqsUpTo(S, n) == UNION {[1..k -> S] : k \in 0..n}

\* quill.deleteText(index, length): removes the characters of the range that
\* exist; Quill's final newline stays.
deleteText(d, index, length) ==
  LET i == Min(index, Len(d))
      j == Min(index + length, Len(d))
  IN SubSeq(d, 1, i) \o SubSeq(d, j + 1, Len(d))

\* quill.insertText(index, text, formats).
insertText(d, index, text) ==
  LET i == Min(index, Len(d))
  IN SubSeq(d, 1, i) \o text \o SubSeq(d, i + 1, Len(d))

\* quill.getText(index, length): a slice of the text followed by its final
\* newline.
getText(d, index, length) ==
  LET full == d \o <<"\n">>
      i == Min(index, Len(full))
      j == Min(index + length, Len(full))
  IN SubSeq(full, i + 1, j)

VizIdle ==
  /\ doc = <<>>
  /\ originalContent = <<>>
  /\ originalRange = NoRange
  /\ suggestedText = <<>>
  /\ changeControls = FALSE
  /\ vPc = "idle"
  /\ docBefore = <<>>

\* showChanges(options), called as its callers do with options.originalText
\* the text of options.range (empty for appended content).
showChanges(range, sugg) ==
  /\ vPc = "idle"
  /\ LET orig == getText(doc, range.index, range.length)
         o == Len(orig)
         i == range.index
         d0 == deleteText(doc, i, range.length)
         d1 == insertText(d0, i, <<"[">>)
         d2 == insertText(d1, i + 1, orig)
         d3 == insertText(d2, i + o + 1, <<"]">>)
         d4 == insertText(d3, i + o + 2, <<" ", "[">>)
         d5 == insertText(d4, i + o + 4, sugg)
         d6 == insertText(d5, i + o + 4 + Len(sugg), <<"]">>)
     IN /\ originalContent' = orig
        /\ originalRange' = range
        /\ docBefore' = doc
        /\ doc' = d6
  /\ suggestedText' = sugg
  /\ changeControls' = TRUE
  /\ vPc' = "shown"

\* applyChanges(suggestedText): the accept button's click handler.
applyChanges ==
  /\ changeControls
  /\ originalRange # NoRange
  /\ LET visualizationLength ==
           Len(originalContent) * 2 + Len(suggestedText) + 6
         d0 == deleteText(doc, originalRange.index, visualizationLength)
     IN doc' = insertText(d0, originalRange.index, suggestedText)
  /\ changeControls' = FALSE
  /\ vPc' = "applied"
  /\ UNCHANGED <<originalContent, originalRange, suggestedText, docBefore>>

\* rejectChanges(): the reject button's click handler.
rejectChanges ==
  /\ changeControls
  /\ IF originalRange = NoRange \/ originalContent = <<>>
       THEN UNCHANGED <<doc, changeControls>>
       ELSE LET suggestedTextIndex == Len(originalContent) + 3
                got == getText(doc, originalRange.index + suggestedTextIndex,
                               IF originalRange.length # 0
                                 THEN originalRange.length ELSE 50)
                visualizationLength ==
                  Len(originalContent) * 2 + Len(got) + 6
                d0 == deleteText(doc, originalRange.index, visualizationLength)
            IN /\ doc' = insertText(d0, originalRange.index, originalContent)
               /\ changeControls' = FALSE
  /\ vPc' = "rejected"
  /\ UNCHANGED <<originalContent, originalRange, suggestedText, docBefore>>

----------------------------------------------------------------------------
(* extractSuggestedContent, sanitizeContent                                *)

(* A reply is a sequence of tokens; each token stands for the piece of     *)
(* text it spells.  "text" is a run of plain words without markup, '#' or  *)
(* ':' ("Hello world"), "<p>para</p>" an HTML paragraph of several words,  *)
(* "<p>ok</p>" an HTML paragraph holding one lowercase word of at most     *)
(* three letters, "~~~" the code fence of three backticks, and "\n" one    *)
(* newline.  With these texts the markdown     *)
(* conversion, the next-heading cut and the repeated-phrase cleanup of     *)
(* sanitizeContent never apply.                                            *)
OptionHeaders == {"Option 1:", "Option 2:"}

ResponseTokens ==
  {"[OPTIONS]", "[/OPTIONS]", "[REWRITE]", "[/REWRITE]", "[COMMENT]",
   "[/COMMENT]", "Suggested Content:", "~~~", "text", "<p>para</p>",
   "<p>ok</p>", "\n"} \cup OptionHeaders

\* Longest reply explored, in tokens.
MaxRespLen == 4

\* The value null, and the texts the function builds around its output.
Null == <<"null">>
Whitespace == {"\n", " "}
OptionsDivOpen == "<div class=suggestion-options>"
DivClose == "</div>"
OptionOpen ==
  [h \in OptionHeaders |->
     IF h = "Option 1:" THEN "<div class=suggestion-option><h4>Option 1:</h4>"
                        ELSE "<div class=suggestion-option><h4>Option 2:</h4>"]
OptionClose == "</div></div>"
TagTokens ==
  {"<p>para</p>", "<p>ok</p>", "<p>", "</p>", OptionsDivOpen, DivClose,
   OptionClose} \cup {OptionOpen[h] : h \in OptionHeaders}

\* The least index i >= from with s[i] \in toks, or 0: String.indexOf and the
\* leftmost match of a regular expression for one of the tokens.
IndexIn(s, toks, from) ==
  LET I == {i \in from..Len(s) : s[i] \in toks}
  IN IF I = {} THEN 0 ELSE CHOOSE i \in I : \A j \in I : i <= j

\* The elements of s at the indices in keep, in order.
RECURSIVE KeepFrom(_, _, _)
KeepFrom(s, keep, i) ==
  IF i > Len(s) THEN <<>>
  ELSE (IF i \in keep THEN <<s[i]>> ELSE <<>>) \o KeepFrom(s, keep, i + 1)

\* String.prototype.includes('<') && includes('>').
HasTag(s) == \E i \in 1..Len(s) : s[i] \in TagTokens

\* String.prototype.trim().
trim(s) ==
  LET N == {i \in 1..Len(s) : s[i] \notin Whitespace}
  IN IF N = {} THEN <<>>
     ELSE SubSeq(s, CHOOSE i \in N : \A j \in N : i <= j,
                    CHOOSE i \in N : \A j \in N : i >= j)

\* The match of /open([\s\S]*?)close/: <<i, j>>, the indices of the opening
\* and closing token, or <<0, 0>>.
MatchBlock_AnyClose(s, open, close) ==
  LET i == IndexIn(s, {open}, 1)
      j == IndexIn(s, {close}, 1)
  IN IF i = 0 \/ j = 0 THEN <<0, 0>> ELSE <<i, j>>

MatchBlock(s, open, close) ==
  LET i == IndexIn(s, {open}, 1)
      j == IF i = 0 THEN 0 ELSE IndexIn(s, {close}, i + 1)
  IN IF j = 0 THEN <<0, 0>> ELSE <<i, j>>

\* cleanCodeBlockMarkers: removes "~~~\n", then every remaining "~~~".
cleanCodeBlockMarkers(s) ==
  LET fenceNl == {i \in 1..Len(s) :
                    \/ s[i] = "~~~" /\ i < Len(s) /\ s[i + 1] = "\n"
                    \/ s[i] = "\n" /\ i > 1 /\ s[i - 1] = "~~~"}
      s1 == KeepFrom(s, (1..Len(s)) \ fenceNl, 1)
  IN SelectSeq(s1, LAMBDA t : t # "~~~")

\* .replace(/\s{2,}/g, ' '): every run of two or more whitespace characters
\* becomes one space.
RECURSIVE CollapseSpaces(_)
CollapseSpaces(s) ==
  IF s = <<>> THEN <<>>
  ELSE IF Len(s) >= 2 /\ s[1] \in Whitespace /\ s[2] \in Whitespace
    THEN LET rest == CollapseSpaces(Tail(s))
         IN <<" ">> \o (IF rest # <<>> /\ rest[1] \in Whitespace
                          THEN Tail(rest) ELSE rest)
    ELSE <<s[1]>> \o CollapseSpaces(Tail(s))

\* Steps 1 and 2 of sanitizeContent(html): whitespace and empty elements.
sanitizeCleanup(html) ==
  IF html = <<>> THEN <<>>
  ELSE
    LET n == Len(html)
        \* />\s+</ : whitespace between two tags
        between == {i \in 1..n :
                      /\ html[i] \in Whitespace
                      /\ \E a \in 1..(i - 1) : \E b \in (i + 1)..n :
                           /\ html[a] \in TagTokens
                           /\ html[b] \in TagTokens
                           /\ \A k \in (a + 1)..(b - 1) : html[k] \in Whitespace}
        s1 == KeepFrom(html, (1..n) \ between, 1)
        \* /<p>\s*<\/p>/ : empty paragraphs
        empty == {i \in 1..Len(s1) :
                    \/ s1[i] = "<p>" /\ i < Len(s1) /\ s1[i + 1] = "</p>"
                    \/ s1[i] = "</p>" /\ i > 1 /\ s1[i - 1] = "<p>"}
        s2 == KeepFrom(s1, (1..Len(s1)) \ empty, 1)
    IN CollapseSpaces(s2)

sanitizeContent(html) ==
  \* Step 4, /<p>([a-z]{1,3})<\/p>/ : "single very short word paragraphs"
  SelectSeq(sanitizeCleanup(html),
            LAMBDA t : t # "<p>ok</p>")

\* `<p>${content}</p>`
WrapParagraph(s) == <<"<p>">> \o s \o <<"</p>">>

\* The option headers of s from index `from` on, each with the text up to
\* the next header or the end: the matches of
\* /Option\s+(\d+)\s*:([\s\S]*?)(?=Option\s+\d+\s*:|$)/g.
RECURSIVE OptionMatches(_, _)
OptionMatches(s, from) ==
  LET i == IndexIn(s, OptionHeaders, from)
  IN IF i = 0 THEN <<>>
     ELSE LET nxt == IndexIn(s, OptionHeaders, i + 1)
              last == IF nxt = 0 THEN Len(s) ELSE nxt - 1
          IN <<[header |-> s[i], body |-> SubSeq(s, i + 1, last)]>>
               \o OptionMatches(s, last + 1)

RECURSIVE Concat(_)
Concat(ss) == IF ss = <<>> THEN <<>> ELSE ss[1] \o Concat(Tail(ss))

\* The [OPTIONS] branch: the block's text with every option replaced by its
\* markup, inside the suggestion-options wrapper.
FormatOptionsBlock(optionsContent) ==
  LET first == IndexIn(optionsContent, OptionHeaders, 1)
      prefix == IF first = 0 THEN optionsContent
                ELSE SubSeq(optionsContent, 1, first - 1)
      ms == OptionMatches(optionsContent, 1)
  IN <<OptionsDivOpen, "\n">> \o prefix
       \o Concat([k \in 1..Len(ms) |->
                    <<OptionOpen[ms[k].header]>>
                      \o sanitizeContent(trim(ms[k].body))
                      \o <<OptionClose, "\n">>])
       \o <<DivClose>>

\* The 'Option N:' branch for text without HTML tags: each option wrapped in
\* a paragraph inside the suggestion-options wrapper.
FormatPlainOptions(optionsContent) ==
  LET ms == OptionMatches(optionsContent, 1)
  IN <<OptionsDivOpen, "\n">>
       \o Concat([k \in 1..Len(ms) |->
                    LET optionContent == cleanCodeBlockMarkers(trim(ms[k].body))
                    IN <<OptionOpen[ms[k].header]>>
                         \o (IF ~HasTag(optionContent)
                               THEN WrapParagraph(optionContent)
                               ELSE optionContent)
                         \o <<OptionClose, "\n">>])
       \o <<DivClose>>

\* The text of a code block or of a section: cleaned, wrapped in a paragraph
\* when it holds no HTML, then sanitized.
FormatFragment(text) ==
  LET cleaned == cleanCodeBlockMarkers(text)
  IN sanitizeContent(IF ~HasTag(cleaned) THEN WrapParagraph(cleaned)
                     ELSE cleaned)

\* The 'Suggested Content:' branch; parts[1] is the text between the first
\* heading and the next one.
SuggestedContentSection(r) ==
  LET h == IndexIn(r, {"Suggested Content:"}, 1)
      nxt == IndexIn(r, {"Suggested Content:"}, h + 1)
  IN SubSeq(r, h + 1, IF nxt = 0 THEN Len(r) ELSE nxt - 1)

FormatSuggestedContent(r) ==
  LET sectionText == trim(SuggestedContentSection(r))
      backtickMatch == MatchBlock(sectionText, "~~~", "~~~")
  IN IF backtickMatch # <<0, 0>>
       THEN FormatFragment(trim(SubSeq(sectionText, backtickMatch[1] + 1,
                                       backtickMatch[2] - 1)))
       ELSE IF HasTag(sectionText)
         THEN LET htmlStart == IndexIn(sectionText, TagTokens, 1)
              IN sanitizeContent(cleanCodeBlockMarkers(
                   SubSeq(sectionText, htmlStart, Len(sectionText))))
         ELSE FormatFragment(sectionText)

\* The last match of /~~~([\s\S]*?)~~~/g: the fences pair up from the left,
\* <<i, j>> are the indices of the last complete pair, or <<0, 0>>.
LastFencePair(r) ==
  LET F == {i \in 1..Len(r) : r[i] = "~~~"}
      nth(k) == CHOOSE i \in F : Cardinality({j \in F : j <= i}) = k
      pairs == Cardinality(F) \div 2
  IN IF pairs = 0 THEN <<0, 0>> ELSE <<nth(2 * pairs - 1), nth(2 * pairs)>>

\* The fallback for a reply that has a [COMMENT] section and nothing else:
\* the text after the first [/COMMENT], or Null.
CommentFallback(r) ==
  IF IndexIn(r, {"[COMMENT]"}, 1) # 0 /\ IndexIn(r, {"[/COMMENT]"}, 1) # 0
    THEN LET commentEnd == IndexIn(r, {"[/COMMENT]"}, 1)
             remainingContent == trim(SubSeq(r, commentEnd + 1, Len(r)))
         IN IF remainingContent # <<>>
              THEN LET cleaned == sanitizeContent(remainingContent)
                   IN IF ~HasTag(cleaned) THEN WrapParagraph(cleaned)
                      ELSE cleaned
              ELSE Null
    ELSE Null

\* The chain after the [OPTIONS] and [REWRITE] checks.
LaterPatterns(r) ==
  LET optionStart == IndexIn(r, OptionHeaders, 1)
      optionsContent == SubSeq(r, optionStart, Len(r))
      fence == LastFencePair(r)
  IN IF optionStart # 0 /\ HasTag(optionsContent)
       THEN sanitizeContent(optionsContent)
     ELSE IF optionStart # 0 /\ OptionMatches(optionsContent, 1) # <<>>
       THEN FormatPlainOptions(optionsContent)
     ELSE IF IndexIn(r, {"Suggested Content:"}, 1) # 0
       THEN FormatSuggestedContent(r)
     ELSE IF fence # <<0, 0>>
       THEN FormatFragment(trim(SubSeq(r, fence[1] + 1, fence[2] - 1)))
     ELSE CommentFallback(r)

extractSuggestedContent_RewriteFirst(r) ==
  LET optionsBlock == MatchBlock(r, "[OPTIONS]", "[/OPTIONS]")
      rewriteMatch == MatchBlock(r, "[REWRITE]", "[/REWRITE]")
  IN IF r = <<>> THEN Null
     ELSE IF rewriteMatch # <<0, 0>>
       THEN sanitizeContent(trim(SubSeq(r, rewriteMatch[1] + 1,
                                        rewriteMatch[2] - 1)))
     ELSE IF optionsBlock # <<0, 0>>
       THEN FormatOptionsBlock(SubSeq(r, optionsBlock[1] + 1,
                                      optionsBlock[2] - 1))
     ELSE LaterPatterns(r)

extractSuggestedContent(r) ==
  LET optionsBlock == MatchBlock(r, "[OPTIONS]", "[/OPTIONS]")
      rewriteMatch == MatchBlock(r, "[REWRITE]", "[/REWRITE]")
  IN IF r = <<>> THEN Null
     ELSE IF optionsBlock # <<0, 0>>
       THEN FormatOptionsBlock(SubSeq(r, optionsBlock[1] + 1,
                                      optionsBlock[2] - 1))
     ELSE IF rewriteMatch # <<0, 0>>
       THEN sanitizeContent(trim(SubSeq(r, rewriteMatch[1] + 1,
                                        rewriteMatch[2] - 1)))
     ELSE LaterPatterns(r)

ExtractIdle ==
  /\ response = <<>>
  /\ result = Null
  /\ ePc = "ready"

\* sendToAI in content mode: suggestedContent =
\* extractSuggestedContent(data.message).
Extract ==
  /\ ePc = "ready"
  /\ result' = extractSuggestedContent(response)
  /\ ePc' = "done"
  /\ UNCHANGED response

----------------------------------------------------------------------------
(* Placement: interpretRequest, implementOption, directQuillUpdate         *)

\* A user message is modelled by the set of the keywords it contains, in
\* lower case (interpretRequest lower-cases the message before matching).
PlacementKeywords ==
  {"headline", "title", "heading", "first paragraph", "opening paragraph",
   "introduction", "second paragraph", "2nd paragraph", "last paragraph",
   "final paragraph", "ending", "conclusion", "beginning", "start", "end",
   "bottom", "phrase", "term", "word", "expression"}

interpretRequest_DefaultBeginning(m) ==
  IF m \cap {"headline", "title", "heading"} # {} THEN "replace-heading"
  ELSE IF m \cap {"first paragraph", "opening paragraph", "introduction"} # {}
    THEN "replace-paragraph-1"
  ELSE IF m \cap {"second paragraph", "2nd paragraph"} # {}
    THEN "replace-paragraph-2"
  ELSE IF m \cap {"last paragraph", "final paragraph", "ending",
                  "conclusion"} # {}
    THEN "replace-last-paragraph"
  ELSE IF m \cap {"beginning", "start"} # {} THEN "beginning"
  ELSE IF m \cap {"end", "bottom"} # {} THEN "end"
  ELSE IF m \cap {"phrase", "term", "word", "expression"} # {}
    THEN "find-and-replace"
  ELSE "beginning"

interpretRequest(m) ==
  IF m \cap {"headline", "title", "heading"} # {} THEN "replace-heading"
  ELSE IF m \cap {"first paragraph", "opening paragraph", "introduction"} # {}
    THEN "replace-paragraph-1"
  ELSE IF m \cap {"second paragraph", "2nd paragraph"} # {}
    THEN "replace-paragraph-2"
  ELSE IF m \cap {"last paragraph", "final paragraph", "ending",
                  "conclusion"} # {}
    THEN "replace-last-paragraph"
  ELSE IF m \cap {"beginning", "start"} # {} THEN "beginning"
  ELSE IF m \cap {"end", "bottom"} # {} THEN "end"
  ELSE IF m \cap {"phrase", "term", "word", "expression"} # {}
    THEN "find-and-replace"
  ELSE "end"

\* The editor document is Quill's text: word tokens and line ends.  NL ends
\* a paragraph, NLH ends a heading line (a newline with the header format);
\* the document always ends with a line end.
NL == "\n"
NLH == "\n#"
Newlines == {NL, NLH}

\* quill.getText(): formats are dropped, every line end reads "\n".
quillText(d) == [i \in 1..Len(d) |-> IF d[i] = NLH THEN NL ELSE d[i]]

\* String.prototype.indexOf(sub): the first 0-based index, or -1.
indexOf(text, sub) ==
  LET I == {i \in 0..(Len(text) - Len(sub)) :
              SubSeq(text, i + 1, i + Len(sub)) = sub}
  IN IF I = {} THEN -1 ELSE CHOOSE i \in I : \A j \in I : i <= j

\* The lines of the document: the elements of root.innerHTML with their
\* textContent.
RECURSIVE LinesOf(_)
LinesOf(d) ==
  IF d = <<>> THEN <<>>
  ELSE LET e == IndexIn(d, Newlines, 1)
       IN IF e = 0 THEN <<[tag |-> "p", text |-> d]>>
          ELSE <<[tag |-> IF d[e] = NLH THEN "h1" ELSE "p",
                  text |-> SubSeq(d, 1, e - 1)]>>
                 \o LinesOf(SubSeq(d, e + 1, Len(d)))

\* analyzeDocumentStructure(): headings and paragraphs, each with the index
\* getPositionInQuill gives it, the first occurrence of its text.
analyzeDocumentStructure(d) ==
  LET entry(l) == [text |-> l.text, index |-> indexOf(quillText(d), l.text)]
      hs == SelectSeq(LinesOf(d), LAMBDA l : l.tag = "h1")
      ps == SelectSeq(LinesOf(d), LAMBDA l : l.tag = "p")
  IN [headings |-> [i \in 1..Len(hs) |-> entry(hs[i])],
      paragraphs |-> [i \in 1..Len(ps) |-> entry(ps[i])]]

\* quill.deleteText(index, length) on a document with its final line end,
\* which Quill never removes.
quillDeleteText(d, index, length) ==
  IF d = <<>> THEN d
  ELSE Append(deleteText(SubSeq(d, 1, Len(d) - 1), index, length), d[Len(d)])

\* clipboard.convert(html): the text the pasted HTML contributes; the line
\* end of a last plain paragraph is dropped, a heading's is kept.
RECURSIVE convertTokens(_)
convertTokens(html) ==
  IF html = <<>> THEN <<>>
  ELSE (CASE html[1] = "<p>para</p>" -> <<"para", NL>>
          [] html[1] = "<p>ok</p>" -> <<"ok", NL>>
          [] html[1] = "<h1>New</h1>" -> <<"New", NLH>>
          [] html[1] \in Whitespace -> <<>>
          [] OTHER -> <<html[1]>>) \o convertTokens(Tail(html))

convert(html) ==
  LET delta == convertTokens(html)
  IN IF delta # <<>> /\ delta[Len(delta)] = NL
       THEN SubSeq(delta, 1, Len(delta) - 1) ELSE delta

\* quill.clipboard.dangerouslyPasteHTML(index, html): the converted content
\* is inserted at index; the document keeps ending with a line end.
dangerouslyPasteHTML(d, index, html) ==
  LET i == Min(index, Len(d))
      r == SubSeq(d, 1, i) \o convert(html) \o SubSeq(d, i + 1, Len(d))
  IN IF r = <<>> \/ r[Len(r)] \notin Newlines THEN Append(r, NL) ELSE r

\* The options object of directQuillUpdate; absent members are NoRange,
\* "undefined", NoIndex and the empty text.
NoIndex == -2

NoOptions ==
  [range |-> NoRange, position |-> "undefined", paragraphIndex |-> NoIndex,
   searchText |-> <<>>]

\* .replace(/<[^>]*>/g, ''): the text without its tags.
stripTags(s) == SelectSeq(s, LAMBDA t : t \notin {"<h1>", "</h1>"})

\* The words of the new content longer than four characters, which the
\* search fallback looks up in the document.
LongWords == {"lengthy"}

ContentWords(html) ==
  SelectSeq(convert(html), LAMBDA w : w \in LongWords)

\* First element of ws that occurs in text, as its index, or -1.
RECURSIVE FirstWordIndex(_, _)
FirstWordIndex(text, ws) ==
  IF ws = <<>> THEN -1
  ELSE IF indexOf(text, <<ws[1]>>) # -1 THEN indexOf(text, <<ws[1]>>)
  ELSE FirstWordIndex(text, Tail(ws))

\* directQuillUpdate(newContent, options) throws inside its try block, and
\* returns false: the paragraph at a negative index is undefined.
directQuillUpdateThrows(d, o) ==
  /\ o.range = NoRange
  /\ o.position = "replace-paragraph"
  /\ o.paragraphIndex # NoIndex
  /\ o.paragraphIndex < 0

\* The document after directQuillUpdate(newContent, options).
directQuillUpdate(d, newContent, o) ==
  LET html == sanitizeContent(newContent)
      structure == analyzeDocumentStructure(d)
      atEnd == dangerouslyPasteHTML(d, Len(d), html)
      replace(index, length) ==
        dangerouslyPasteHTML(quillDeleteText(d, index, length), index, html)
  IN IF directQuillUpdateThrows(d, o) THEN d
     ELSE IF o.range # NoRange THEN replace(o.range.index, o.range.length)
     ELSE IF o.position = "beginning" THEN dangerouslyPasteHTML(d, 0, html)
     ELSE IF o.position = "end" THEN atEnd
     ELSE IF o.position = "replace-heading"
       THEN IF Len(structure.headings) > 0
              THEN replace(structure.headings[1].index,
                           Len(structure.headings[1].text))
              ELSE dangerouslyPasteHTML(d, 0, html)
     ELSE IF o.position = "replace-paragraph" /\ o.paragraphIndex # NoIndex
       THEN IF Len(structure.paragraphs) > o.paragraphIndex
              THEN replace(structure.paragraphs[o.paragraphIndex + 1].index,
                           Len(structure.paragraphs[o.paragraphIndex + 1].text))
              ELSE atEnd
     ELSE IF o.searchText # <<>>
       THEN LET plainSearchText == stripTags(o.searchText)
                index == indexOf(quillText(d), plainSearchText)
                wordIndex == FirstWordIndex(quillText(d), ContentWords(html))
            IN IF index # -1 THEN replace(index, Len(plainSearchText))
               ELSE IF wordIndex # -1
                 THEN dangerouslyPasteHTML(d, wordIndex, html)
               ELSE atEnd
     ELSE atEnd

\* The options implementOption passes to directQuillUpdate.
\* selRange, selText: currentlySelectedRange and currentlySelectedText;
\* originalSelected: originalContent.selectedText (empty when absent).
implementOptionOptions(d, selRange, selText, originalSelected, userRequest) ==
  LET requestPosition == interpretRequest(userRequest)
      isHeadline == \/ \E i \in 1..Len(originalSelected) :
                          originalSelected[i] \in {"<h1>", "<h2>"}
                    \/ selText = <<"headline">>
  IN IF selRange # NoRange THEN [NoOptions EXCEPT !.range = selRange]
     ELSE IF originalSelected # <<>>
       THEN IF isHeadline
              THEN [NoOptions EXCEPT !.position = "replace-heading"]
              ELSE [NoOptions EXCEPT !.searchText = originalSelected]
     ELSE IF requestPosition = "replace-paragraph-1"
       THEN [NoOptions EXCEPT !.position = "replace-paragraph",
                              !.paragraphIndex = 0]
     ELSE IF requestPosition = "replace-paragraph-2"
       THEN [NoOptions EXCEPT !.position = "replace-paragraph",
                              !.paragraphIndex = 1]
     ELSE IF requestPosition = "replace-last-paragraph"
       THEN [NoOptions EXCEPT
               !.position = "replace-paragraph",
               !.paragraphIndex =
                  Len(analyzeDocumentStructure(d).paragraphs) - 1]
     ELSE [NoOptions EXCEPT !.position = requestPosition]

----------------------------------------------------------------------------
(* Assistant chat: handleSendMessage, sendToAI, addToHistory               *)

\* The limit addToHistory compares chatHistory.length with.
HISTORY_LIMIT == 20

\* Bounds: user inputs handled in one run, and the exchanges that already
\* took place when a run starts.
MaxTurns == 2
PriorExchanges == 6

\* The keywords of the regular messages explored: a headline request and a
\* request without placement keyword.
ChatMessages == {{"headline"}, {"improve"}}

\* The contents addToHistory stores for the assistant's replies and for the
\* error texts.
ReplyText == {"<reply>"}
ErrorText == {"<error>"}

\* What the model's reply offers: numbered options (whose text may mention
\* the headline), one suggestion, or no suggestion.
ReplyKinds == {"options", "options-headline", "single", "plain"}

\* The option contents extractOptions finds in a reply with options.
TwoOptions == << <<"<p>para</p>">>, <<"<h1>New</h1>">> >>

\* A selected text longer than 15000 characters.
HugeText == <<"<15001 characters>">>

NoAIMessage ==
  [present |-> FALSE, selectedText |-> <<>>, options |-> <<>>,
   mentionsHeadline |-> FALSE]

NoSuggestion ==
  [present |-> FALSE, selectedText |-> <<>>, selectionRange |-> NoRange,
   content |-> <<>>]

NoResult == [message |-> "<none>", errorType |-> "<none>", suggested |-> FALSE]

\* The userRequest of an update that did not consult interpretRequest.
NoRequest == {"<none>"}

\* addToHistory(message, role).
addToHistory(h, msg, role) ==
  LET kept == IF Len(h) > HISTORY_LIMIT
                THEN SubSeq(h, Len(h) - HISTORY_LIMIT + 1, Len(h))
                ELSE h
  IN Append(kept, [role |-> role, content |-> msg])

\* const userRequests = chatHistory.filter(msg => msg.role === 'user');
\* const relevantRequest = userRequests[userRequests.length - 2]?.content || '';
relevantRequest(h) ==
  LET userRequests == SelectSeq(h, LAMBDA e : e.role = "user")
  IN IF Len(userRequests) >= 2
       THEN userRequests[Len(userRequests) - 1].content ELSE {}

\* detectContentRequest(message), over the keywords modelled.
detectContentRequest(m) ==
  m \cap {"improve", "rewrite", "headline", "first paragraph",
          "opening paragraph", "second paragraph", "2nd paragraph",
          "last paragraph", "final paragraph"} # {}

\* The messages of the errors sendToAI's operation throws in part_003:
\* fetch rejects, or `API responded with status: S. E` with E the error
\* member of claude-assistant's response.
FetchErrors003 ==
  { {"Failed to fetch"},
    {"status: 400", "Content too large"},
    {"status: 408"},
    {"status: 429", "429"} }

\* The same in part_004: `API Error: S - B` with B the response body.
FetchErrors004 ==
  { {"Failed to fetch"},
    {"status: 408", "The request timed out"},
    {"status: 429", "429"} }

\* handleApiError(error): the result object for an error message.
handleApiError(msg) ==
  IF msg \cap {"token limit", "content too large", "content too long"} # {}
    THEN [message |-> "I can't process this much text at once",
          errorType |-> "token_limit", suggested |-> FALSE]
  ELSE IF msg \cap {"timeout", "ETIMEDOUT"} # {}
    THEN [message |-> "The request timed out",
          errorType |-> "timeout", suggested |-> FALSE]
  ELSE IF msg \cap {"rate limit", "429"} # {}
    THEN [message |-> "I'm getting too many requests right now",
          errorType |-> "rate_limit", suggested |-> FALSE]
  ELSE [message |-> "Sorry, I encountered an error",
        errorType |-> "general", suggested |-> FALSE]

\* sendToAI's catch block: how sendToAI ends for an error, and with what.
sendToAICatch_Rethrows(msg) ==
  [outcome |-> "threw", result |-> NoResult]

sendToAICatch(msg) ==
  [outcome |-> "returned", result |-> handleApiError(msg)]

ChatIdle ==
  /\ core = "part_003"
  /\ chatHistory = <<>>
  /\ currentlySelectedText = <<>>
  /\ currentlySelectedRange = NoRange
  /\ lastAIMessage = NoAIMessage
  /\ singleSuggestion = NoSuggestion
  /\ cPc = "idle"
  /\ message = {}
  /\ payloadSelectedText = <<>>
  /\ payloadSelectionRange = NoRange
  /\ sendOutcome = "none"
  /\ sendResult = NoResult
  /\ shown = "<none>"
  /\ turns = 0
  /\ quillDoc = <<NL>>
  /\ updateVia = "none"
  /\ updateOptions = NoOptions
  /\ updateContent = <<>>
  /\ updateRequest = NoRequest
  /\ docAtUpdate = <<NL>>
  /\ updateResult = "none"

\* The locals of retryOperation, once the call has ended.
RetryReset ==
  /\ rPc' = "idle"
  /\ maxRetries' = MAX_RETRY_ATTEMPTS
  /\ attempt' = 0
  /\ delay' = RETRY_DELAY
  /\ lastError' = NoError
  /\ calls' = 0
  /\ waits' = <<>>
  /\ failures' = <<>>
  /\ outcome' = "none"
  /\ thrown' = NoError

\* handleTextSelection(data), in 'discuss' mode.
HandleTextSelection(text, range) ==
  /\ cPc = "idle"
  /\ currentlySelectedText' = text
  /\ currentlySelectedRange' = range
  /\ UNCHANGED <<core, chatHistory, lastAIMessage, singleSuggestion, cPc,
                 message, payloadSelectedText, payloadSelectionRange,
                 sendOutcome, sendResult, shown,
                 turns, placeVars, retryVars>>

\* The 'contentUpdated' listener.
ContentUpdated ==
  /\ currentlySelectedText # <<>> \/ currentlySelectedRange # NoRange
  /\ currentlySelectedText' = <<>>
  /\ currentlySelectedRange' = NoRange
  /\ UNCHANGED <<core, chatHistory, lastAIMessage, singleSuggestion, cPc,
                 message, payloadSelectedText, payloadSelectionRange,
                 sendOutcome, sendResult, shown,
                 turns, placeVars, retryVars>>

\* handleRegularMessage after `await sendToAI(...)`: the response is shown,
\* stored in the history, and the selection is cleared.  Nothing of it runs
\* when sendToAI throws.
AfterSendToAI(end, h, ai, single) ==
  /\ message' = {}
  /\ payloadSelectedText' = <<>>
  /\ payloadSelectionRange' = NoRange
  /\ sendOutcome' = end.outcome
  /\ sendResult' = end.result
  /\ cPc' = "idle"
  /\ IF end.outcome = "returned"
       THEN /\ shown' = end.result.message
            /\ chatHistory' =
                 addToHistory(h, IF end.result.errorType = "<none>"
                                   THEN ReplyText ELSE ErrorText, "assistant")
            /\ currentlySelectedText' = <<>>
            /\ currentlySelectedRange' = NoRange
            /\ lastAIMessage' = ai
            /\ singleSuggestion' = single
       ELSE /\ chatHistory' = h
            /\ UNCHANGED <<shown, currentlySelectedText,
                           currentlySelectedRange, lastAIMessage,
                           singleSuggestion>>

\* handleSendMessage with a regular message: handleRegularMessage and
\* sendToAI up to the network call, or to the return of a size guard.
HandleRegularMessage(m) ==
  /\ cPc = "idle"
  /\ turns < MaxTurns
  /\ turns' = turns + 1
  /\ UNCHANGED <<core, placeVars>>
  /\ IF currentlySelectedText = HugeText
       THEN /\ AfterSendToAI(
                 [outcome |-> "returned",
                  result |-> [message |-> "The selected text is too large",
                              errorType |-> "content_too_large",
                              suggested |-> FALSE]],
                 chatHistory, lastAIMessage, singleSuggestion)
            /\ UNCHANGED retryVars
       ELSE /\ message' = m
            /\ payloadSelectedText' = currentlySelectedText
            /\ payloadSelectionRange' =
                 IF currentlySelectedText # <<>> THEN currentlySelectedRange
                 ELSE NoRange
            /\ cPc' = "awaiting"
            /\ rPc' = "call"
            /\ maxRetries' = MAX_RETRY_ATTEMPTS
            /\ attempt' = 0
            /\ delay' = RETRY_DELAY
            /\ lastError' = NoError
            /\ calls' = 0
            /\ waits' = <<>>
            /\ failures' = <<>>
            /\ outcome' = "none"
            /\ thrown' = NoError
            /\ UNCHANGED <<chatHistory, currentlySelectedText,
                           currentlySelectedRange, lastAIMessage,
                           singleSuggestion, sendOutcome, sendResult, shown>>

\* part_004: the awaited fetch of sendToAI resolves with an OK response.
FetchSucceeds004 ==
  /\ core = "part_004"
  /\ cPc = "awaiting"
  /\ rPc = "call"
  /\ calls' = calls + 1
  /\ rPc' = "done"
  /\ outcome' = "returned"
  /\ UNCHANGED <<maxRetries, attempt, delay, lastError, waits, failures,
                 thrown, chatVars, placeVars>>

\* part_004: the fetch rejects or the response is not OK; sendToAI throws
\* the error into its own catch block.
FetchFails004(msg) ==
  /\ core = "part_004"
  /\ cPc = "awaiting"
  /\ rPc = "call"
  /\ calls' = calls + 1
  /\ failures' = Append(failures, msg)
  /\ lastError' = msg
  /\ rPc' = "done"
  /\ outcome' = "thrown"
  /\ thrown' = msg
  /\ UNCHANGED <<maxRetries, attempt, delay, waits, chatVars, placeVars>>

\* The network call of sendToAI has ended: the rest of sendToAI, then the
\* rest of handleRegularMessage.
SendToAIReturns(jsonOk, reply) ==
  /\ cPc = "awaiting"
  /\ rPc = "done"
  /\ RetryReset
  /\ UNCHANGED <<core, turns, placeVars>>
  /\ IF outcome = "returned" /\ jsonOk
       THEN LET mode == IF detectContentRequest(message)
                             \/ payloadSelectedText # <<>>
                          THEN "content" ELSE "conversation"
                suggested == mode = "content" /\ reply # "plain"
                h1 == addToHistory(chatHistory, message, "user")
                h2 == addToHistory(h1, ReplyText, "assistant")
                ai == IF suggested /\ reply \in {"options", "options-headline"}
                        THEN [present |-> TRUE,
                              selectedText |-> payloadSelectedText,
                              options |-> TwoOptions,
                              mentionsHeadline |-> reply = "options-headline"]
                        ELSE lastAIMessage
                single == IF suggested /\ reply = "single"
                            THEN [present |-> TRUE,
                                  selectedText |-> payloadSelectedText,
                                  selectionRange |->
                                    IF core = "part_004"
                                      THEN payloadSelectionRange
                                      ELSE NoRange,
                                  content |-> <<"<p>para</p>">>]
                            ELSE singleSuggestion
            IN AfterSendToAI(
                 [outcome |-> "returned",
                  result |-> [message |-> "<reply>", errorType |-> "<none>",
                              suggested |-> suggested]],
                 h2, ai, single)
       ELSE AfterSendToAI(
              sendToAICatch(IF outcome = "thrown" THEN thrown ELSE {}),
              chatHistory, lastAIMessage, singleSuggestion)

\* implementOption(options, optionNumber, originalContent, userRequest) and
\* the directQuillUpdate it ends with.  selText is currentlySelectedText at
\* the time of the call.
ImplementOption(via, options, optionNumber, originalSelected, userRequest, selText) ==
  LET index == optionNumber - 1
      o == implementOptionOptions(quillDoc, currentlySelectedRange, selText,
                                  originalSelected, userRequest)
  IN IF index < 0 \/ index >= Len(options)
       THEN /\ updateResult' = "false"
            /\ updateVia' = via
            /\ UNCHANGED <<quillDoc, updateOptions, updateContent,
                           updateRequest, docAtUpdate>>
       ELSE /\ updateVia' = via
            /\ updateOptions' = o
            /\ updateContent' = options[index + 1]
            /\ updateRequest' =
                 IF currentlySelectedRange = NoRange /\ originalSelected = <<>>
                   THEN userRequest ELSE NoRequest
            /\ docAtUpdate' = quillDoc
            /\ quillDoc' = directQuillUpdate(quillDoc, options[index + 1], o)
            /\ updateResult' =
                 IF directQuillUpdateThrows(quillDoc, o) THEN "false"
                 ELSE "true"

\* handleSendMessage with an implementation command ("implement it", "ok").
HandleImplementationCommand ==
  /\ cPc = "idle"
  /\ turns < MaxTurns
  /\ turns' = turns + 1
  /\ UNCHANGED <<core, chatHistory, currentlySelectedText,
                 currentlySelectedRange, lastAIMessage, singleSuggestion, cPc,
                 message, payloadSelectedText, payloadSelectionRange,
                 sendOutcome, sendResult, retryVars>>
  /\ IF ~lastAIMessage.present
       THEN /\ shown' = "I don't have any previous suggestions to implement"
            /\ UNCHANGED placeVars
     ELSE IF Len(lastAIMessage.options) = 0
       THEN /\ shown' = "I don't see any specific content to implement"
            /\ UNCHANGED placeVars
     ELSE /\ ImplementOption("command", lastAIMessage.options, 1,
                             lastAIMessage.selectedText,
                             relevantRequest(chatHistory),
                             currentlySelectedText)
          /\ shown' = IF updateResult' = "true"
                        THEN "I've implemented the suggestion for you"
                        ELSE "I tried to implement the suggestion"

HandleOptionSelection_NoCountCheck(optionNumber) ==
  /\ cPc = "idle"
  /\ turns < MaxTurns
  /\ turns' = turns + 1
  /\ UNCHANGED <<core, chatHistory, currentlySelectedRange, lastAIMessage,
                 singleSuggestion, cPc, message, payloadSelectedText,
                 payloadSelectionRange, sendOutcome, sendResult, retryVars>>
  /\ IF ~lastAIMessage.present
       THEN /\ shown' = "I don't have any options for you to select from"
            /\ UNCHANGED <<currentlySelectedText, placeVars>>
     ELSE /\ UNCHANGED currentlySelectedText
          /\ ImplementOption("selection", lastAIMessage.options,
                             optionNumber, lastAIMessage.selectedText,
                             relevantRequest(chatHistory),
                             currentlySelectedText)
          /\ shown' = IF updateResult' = "true"
                        THEN "I've implemented option N for you"
                        ELSE "I tried to implement option N"

\* handleSendMessage with an option selection ("use option 2").
HandleOptionSelection(optionNumber) ==
  /\ cPc = "idle"
  /\ turns < MaxTurns
  /\ turns' = turns + 1
  /\ UNCHANGED <<core, chatHistory, currentlySelectedRange, lastAIMessage,
                 singleSuggestion, cPc, message, payloadSelectedText,
                 payloadSelectionRange, sendOutcome, sendResult, retryVars>>
  /\ IF ~lastAIMessage.present
       THEN /\ shown' = "I don't have any options for you to select from"
            /\ UNCHANGED <<currentlySelectedText, placeVars>>
     ELSE IF Len(lastAIMessage.options) < optionNumber
       THEN /\ shown' = "I only have N options available"
            /\ UNCHANGED <<currentlySelectedText, placeVars>>
     ELSE LET request == relevantRequest(chatHistory)
              headline ==
                \/ "headline" \in request
                \/ lastAIMessage.mentionsHeadline
                \/ \E i \in 1..Len(lastAIMessage.selectedText) :
                     lastAIMessage.selectedText[i] = "<h1>"
              selText == IF headline THEN <<"headline">>
                         ELSE currentlySelectedText
          IN /\ currentlySelectedText' = selText
             /\ ImplementOption("selection", lastAIMessage.options,
                                optionNumber, lastAIMessage.selectedText,
                                request, selText)
             /\ shown' = IF updateResult' = "true"
                           THEN "I've implemented option N for you"
                           ELSE "I tried to implement option N"

\* Click on the "Implement Option N" button of the last options message.
ImplementButtonClick(optionNumber) ==
  /\ cPc = "idle"
  /\ turns < MaxTurns
  /\ lastAIMessage.present
  /\ optionNumber <= Len(lastAIMessage.options)
  /\ turns' = turns + 1
  /\ ImplementOption("button", lastAIMessage.options, optionNumber,
                     lastAIMessage.selectedText, relevantRequest(chatHistory),
                     currentlySelectedText)
  /\ UNCHANGED <<core, chatHistory, currentlySelectedText,
                 currentlySelectedRange, lastAIMessage, singleSuggestion, cPc,
                 message, payloadSelectedText, payloadSelectionRange,
                 sendOutcome, sendResult, shown, retryVars>>

\* Click on the Apply button of a single suggestion (addSingleOptionUI).
ApplyButtonClick ==
  /\ cPc = "idle"
  /\ turns < MaxTurns
  /\ singleSuggestion.present
  /\ turns' = turns + 1
  /\ LET request == relevantRequest(chatHistory)
         selected == singleSuggestion.selectedText
         o == IF selected # <<>>
                THEN [NoOptions EXCEPT
                        !.searchText = selected,
                        !.range = singleSuggestion.selectionRange,
                        !.position =
                           IF \E i \in 1..Len(selected) :
                                selected[i] \in {"<h1>", "<h2>", "<h3>"}
                             THEN "replace-heading" ELSE "undefined"]
                ELSE [NoOptions EXCEPT !.position = interpretRequest(request)]
     IN /\ updateVia' = "apply"
        /\ updateOptions' = o
        /\ updateContent' = singleSuggestion.content
        /\ updateRequest' = IF selected = <<>> THEN request ELSE NoRequest
        /\ docAtUpdate' = quillDoc
        /\ quillDoc' = directQuillUpdate(quillDoc, singleSuggestion.content, o)
        /\ updateResult' = IF directQuillUpdateThrows(quillDoc, o)
                             THEN "false" ELSE "true"
  /\ singleSuggestion' = [singleSuggestion EXCEPT !.present = updateResult' # "true"]
  /\ UNCHANGED <<core, chatHistory, currentlySelectedText,
                 currentlySelectedRange, lastAIMessage, cPc, message,
                 payloadSelectedText, payloadSelectionRange, sendOutcome,
                 sendResult, shown, retryVars>>

\* implementOption called with arbitrary arguments: the placement of a
\* suggestion for every request, selection and document.
ImplementOptionCall(newContent, originalSelected, userRequest) ==
  /\ updateVia = "none"
  /\ ImplementOption("call", <<newContent>>, 1, originalSelected, userRequest,
                     currentlySelectedText)
  /\ UNCHANGED <<core, chatHistory, currentlySelectedText,
                 currentlySelectedRange, lastAIMessage, singleSuggestion, cPc,
                 message, payloadSelectedText, payloadSelectionRange,
                 sendOutcome, sendResult, shown, turns, retryVars>>

----------------------------------------------------------------------------
(* The serverless functions: airtable-proxy, claude-assistant and the      *)
(* ai-assistant function of cors-handler.js.  A response is the pair of    *)
(* its status code and whether it carries the CORS headers; a handler that *)
(* ends without a return statement resolves to undefined.                   *)

\* Bound on the rows of the AI Assistants table.
MaxAssistants == 2

AssistantIds == 1..MaxAssistants

AssistantKeys == {"editor", "seo"}

NoResponse == [statusCode |-> 0, headers |-> FALSE]

Undefined == [statusCode |-> -1, headers |-> FALSE]

Respond(status) == [statusCode |-> status, headers |-> TRUE]

NoConfig == 0

DefaultConfig == -1

Thrown == -2

\* An upstream call ends with an answer or with an error: the markers of
\* error.message and error.response.status (0 without a response).
Ok == [message |-> {}, status |-> 200]

Failure(msg, st) == [message |-> msg, status |-> st]

\* What the provider call may do during one invocation.
UpstreamOutcomes ==
  {Ok,
   Failure({"token limit"}, 0), Failure({"max tokens"}, 0),
   Failure({"too many tokens"}, 0), Failure({"timeout"}, 0),
   Failure({"ETIMEDOUT"}, 0), Failure({"504"}, 504),
   Failure({"status code 429"}, 429), Failure({}, 500), Failure({}, 0),
   Failure({"token limit", "timeout"}, 0), Failure({"max tokens"}, 429)}

\* What the record store may do.
StoreOutcomes == {Ok, Failure({}, 404), Failure({"status code 429"}, 429)}

NoApiError == [message |-> {"<none>"}, status |-> 0, from |-> "none"]

Caught(e, call) == [message |-> e.message, status |-> e.status, from |-> call]

\* records[0]: the first row of a non-empty answer of the record store.
FirstRecord(S) == CHOOSE x \in S : \A y \in S : x <= y

BackendIdle ==
  /\ endpoint = "none"
  /\ assistantRecords = [i \in AssistantIds |-> [Key |-> "editor", Active |-> TRUE]]
  /\ linkedAssistantIds = {}
  /\ assistantType = "editor"
  /\ httpResponse = NoResponse
  /\ providerConfig = NoConfig
  /\ apiError = NoApiError

\* getAssistantConfig of claude-assistant.js: the id of the assistant whose
\* fields it returns, or Thrown.
getAssistantConfig_claude(records, linked, assistantKey, contentOk) ==
  LET found == {i \in DOMAIN records :
                  records[i].Key = assistantKey /\ records[i].Active}
      matchingAssistants == found \cap linked
  IN IF ~contentOk THEN Thrown
     ELSE IF linked = {} THEN Thrown
     ELSE IF matchingAssistants = {} THEN Thrown
     ELSE FirstRecord(matchingAssistants)

\* getAssistantConfig of cors-handler.js: the id of the assistant whose
\* fields it returns, DefaultConfig, or Thrown.
getAssistantConfig_cors(records, linked, assistantKey, contentOk) ==
  LET found == {i \in DOMAIN records : records[i].Key = assistantKey}
  IN IF ~contentOk THEN Thrown
     ELSE IF linked = {} THEN DefaultConfig
     ELSE IF found = {} THEN DefaultConfig
     ELSE FirstRecord(found)

apiErrorStatus_FirstMatchWins(e) ==
  IF e.message \cap {"token limit", "max tokens", "too many tokens"} # {}
    THEN 400
  ELSE IF e.message \cap {"timeout", "ETIMEDOUT", "504"} # {} THEN 408
  ELSE IF e.status = 429 THEN 429
  ELSE 500

\* The status the inner catch of claude-assistant.js answers with: three
\* if statements in a row, each overwriting statusCode.
apiErrorStatus(e) ==
  LET s1 == IF e.message \cap {"token limit", "max tokens",
                               "too many tokens"} # {}
              THEN 400 ELSE 500
      s2 == IF e.message \cap {"timeout", "ETIMEDOUT", "504"} # {}
              THEN 408 ELSE s1
  IN IF e.status = 429 THEN 429 ELSE s2

\* exports.handler of airtable-proxy.js.
AirtableProxy(httpMethod, bodyOk, operation, upstream) ==
  /\ endpoint = "none"
  /\ endpoint' = "airtable-proxy"
  /\ httpResponse' =
       IF httpMethod = "OPTIONS" THEN Respond(200)
       ELSE IF ~bodyOk THEN Respond(500)
       ELSE IF operation = "" THEN Respond(400)
       ELSE IF operation = "test" THEN Respond(200)
       ELSE IF operation \in {"getAssistants", "getContentRecord",
                              "getAssistantsByFilter", "updateContent"}
         THEN IF upstream = Ok THEN Respond(200) ELSE Respond(500)
       ELSE Respond(400)
  /\ UNCHANGED <<assistantRecords, linkedAssistantIds, assistantType,
                 providerConfig, apiError>>

\* exports.handler of claude-assistant.js.
ClaudeAssistant(httpMethod, bodyOk, paramsOk, keysOk, store, tooLarge, upstream) ==
  /\ endpoint = "none"
  /\ endpoint' = "claude-assistant"
  /\ LET config == getAssistantConfig_claude(assistantRecords,
                     linkedAssistantIds, assistantType, store = Ok)
         early == httpMethod = "OPTIONS" \/ ~bodyOk \/ ~paramsOk \/ ~keysOk
         caught == IF early THEN NoApiError
                   ELSE IF store # Ok THEN Caught(store, "store")
                   ELSE IF config = Thrown
                     THEN Caught(Failure({}, 0), "config")
                   ELSE IF tooLarge \/ upstream = Ok THEN NoApiError
                   ELSE Caught(upstream, "provider")
     IN /\ apiError' = caught
        /\ httpResponse' =
             IF httpMethod = "OPTIONS" THEN Respond(200)
             ELSE IF ~bodyOk THEN Respond(500)
             ELSE IF ~paramsOk THEN Respond(400)
             ELSE IF ~keysOk THEN Respond(500)
             ELSE IF caught.from \in {"store", "config"}
               THEN Respond(apiErrorStatus(caught))
             ELSE IF tooLarge THEN Respond(400)
             ELSE IF upstream = Ok THEN Respond(200)
             ELSE Respond(apiErrorStatus(caught))
        /\ providerConfig' =
             IF early \/ config = Thrown \/ tooLarge THEN NoConfig ELSE config
  /\ UNCHANGED <<assistantRecords, linkedAssistantIds, assistantType>>

\* exports.handler of cors-handler.js, the ai-assistant function.
AiAssistant(httpMethod, bodyOk, paramsOk, contentOk, upstream) ==
  /\ endpoint = "none"
  /\ endpoint' = "ai-assistant"
  /\ LET config == getAssistantConfig_cors(assistantRecords,
                     linkedAssistantIds, assistantType, contentOk)
         early == httpMethod = "OPTIONS" \/ ~bodyOk \/ ~paramsOk
     IN /\ httpResponse' =
             IF httpMethod = "OPTIONS" THEN Respond(200)
             ELSE IF ~bodyOk THEN Respond(400)
             ELSE IF ~paramsOk THEN Respond(400)
             ELSE IF config = Thrown THEN Undefined
             ELSE IF upstream = Ok THEN Respond(200)
             ELSE Undefined
        /\ providerConfig' =
             IF early \/ config = Thrown THEN NoConfig ELSE config
  /\ UNCHANGED <<assistantRecords, linkedAssistantIds, assistantType,
                 apiError>>

----------------------------------------------------------------------------
(* Suggestions applied to the editor and the auto-save they set off.       *)
(* applyChanges and directQuillUpdate change the document through the      *)
(* Quill API (deleteText, insertText, dangerouslyPasteHTML), which emits    *)
(* Quill's text-change to the listener of setupEditorControls; 100 ms      *)
(* later they dispatch a DOM event named 'text-change' on quill.root,      *)
(* which no listener of the editor receives.                               *)

ApplyIdle ==
  /\ appliedVia = "none"
  /\ appliedAt = -1
  /\ domEventPending = FALSE
  /\ vizPending = FALSE

\* The document while a visualization is shown: it holds the markers and
\* both the original and the suggested text.
VisualizationContent == "[v0] [v1]"

ApiTextChange_Silent(c) ==
  /\ c # content
  /\ content' = c
  /\ UNCHANGED <<timerPending, inflight, storeContent, saves, failedSaves,
                 edits, hasRecordId, saveStatus>>

\* A Quill API call that changes the document: the text-change listener
\* re-arms the debounced update.
ApiTextChange(c) ==
  /\ c # content
  /\ content' = c
  /\ timerPending' = TRUE
  /\ saveStatus' = "saving"
  /\ UNCHANGED <<inflight, storeContent, saves, failedSaves, edits,
                 hasRecordId>>

\* showChanges: the selected text is replaced by the marked original and
\* suggested texts through quill.deleteText and quill.insertText.
ShowChangesShown ==
  /\ appliedVia = "none"
  /\ ~vizPending
  /\ ApiTextChange(VisualizationContent)
  /\ vizPending' = TRUE
  /\ UNCHANGED <<appliedVia, appliedAt, domEventPending>>

\* rejectChanges: the visualization is deleted and the original text is
\* inserted again.
RejectChangesRestored(c) ==
  /\ appliedVia = "none"
  /\ vizPending
  /\ ApiTextChange(c)
  /\ vizPending' = FALSE
  /\ UNCHANGED <<appliedVia, appliedAt, domEventPending>>

\* applyChanges: the visualization is replaced by the suggested text and the
\* DOM event is scheduled.
ApplyChangesAccepted(c) ==
  /\ appliedVia = "none"
  /\ vizPending
  /\ Len(saves) < MaxSaves
  /\ ApiTextChange(c)
  /\ appliedVia' = "applyChanges"
  /\ appliedAt' = Len(saves)
  /\ domEventPending' = TRUE
  /\ vizPending' = FALSE

\* directQuillUpdate: the suggestion is spliced into the document and the
\* DOM event is scheduled.
DirectQuillUpdateApplied(c) ==
  /\ appliedVia = "none"
  /\ ~vizPending
  /\ Len(saves) < MaxSaves
  /\ ApiTextChange(c)
  /\ appliedVia' = "directQuillUpdate"
  /\ appliedAt' = Len(saves)
  /\ domEventPending' = TRUE
  /\ UNCHANGED vizPending

\* The timeout of 100 ms fires: quill.root.dispatchEvent(new Event(
\* 'text-change')) reaches no listener.
DomEventDispatched ==
  /\ domEventPending
  /\ domEventPending' = FALSE
  /\ UNCHANGED <<appliedVia, appliedAt, vizPending, saveVars>>

----------------------------------------------------------------------------
(* The temperature and max_tokens of a provider request.  A field of the   *)
(* configuration record is undefined, null, a number or a string; numbers  *)
(* are kept in tenths, so that 0.7 is 7 and 4000 is 40000.                 *)

Undef == [t |-> "undefined", n |-> 0]
NullValue == [t |-> "null", n |-> 0]
Num(n) == [t |-> "number", n |-> n]
\* A string that spells the number n, the empty string, other text.
Str(n) == [t |-> "string", n |-> n]
EmptyStr == [t |-> "empty", n |-> 0]
Text == [t |-> "text", n |-> 0]
NaN == [t |-> "NaN", n |-> 0]

DEFAULT_TEMPERATURE == 7
DEFAULT_MAX_TOKENS == 40000

\* The values a Temperature and a MaxTokens field may hold.
TemperatureValues ==
  {Undef, NullValue, Num(0), Num(5), Num(10), Num(15), Num(-1), Str(5), Str(20),
   EmptyStr, Text}

MaxTokensValues ==
  {Undef, NullValue, Num(0), Num(5), Num(125), Num(10000), Num(-50), Str(1000),
   Str(-10), EmptyStr, Text}

\* parseFloat(v).
parseFloat(v) == IF v.t \in {"number", "string"} THEN Num(v.n) ELSE NaN

\* parseInt(v, 10): the integer part, towards zero.
parseInt(v) ==
  IF v.t \in {"number", "string"}
    THEN Num(IF v.n >= 0 THEN (v.n \div 10) * 10
             ELSE 0 - (((0 - v.n) \div 10) * 10))
    ELSE NaN

\* ToNumber(v), as applied by <, <=, > and the global isNaN.
ToNumber(v) ==
  IF v.t \in {"number", "string"} THEN Num(v.n)
  ELSE IF v.t \in {"empty", "null"} THEN Num(0)
  ELSE NaN

\* The operand of || is truthy.
Truthy(v) ==
  /\ v.t \notin {"undefined", "null", "empty", "NaN"}
  /\ ~(v.t = "number" /\ v.n = 0)

isNaN(v) == ToNumber(v) = NaN

PayloadIdle ==
  /\ modelConfig = [Temperature |-> Undef, MaxTokens |-> Undef]
  /\ payloadBy = "none"
  /\ requestPayload = [temperature |-> Undef, max_tokens |-> Undef]

claudeTemperature_NoUpperBound(T) ==
  IF T \in {Undef, NullValue} THEN Num(DEFAULT_TEMPERATURE)
  ELSE LET temperature == parseFloat(T)
       IN IF isNaN(temperature) \/ temperature.n < 0
            THEN Num(DEFAULT_TEMPERATURE) ELSE temperature

\* claude-assistant.js: the temperature for assistantConfig.Temperature.
claudeTemperature(T) ==
  IF T \in {Undef, NullValue} THEN Num(DEFAULT_TEMPERATURE)
  ELSE LET temperature == parseFloat(T)
       IN IF isNaN(temperature) \/ temperature.n < 0 \/ temperature.n > 10
            THEN Num(DEFAULT_TEMPERATURE) ELSE temperature

\* claude-assistant.js: maxTokens for assistantConfig.MaxTokens.
claudeMaxTokens(M) ==
  IF M \in {Undef, NullValue} THEN Num(DEFAULT_MAX_TOKENS)
  ELSE LET maxTokens == parseInt(M)
       IN IF isNaN(maxTokens) \/ maxTokens.n <= 0
            THEN Num(DEFAULT_MAX_TOKENS) ELSE maxTokens

\* BaseModelProvider: the constructor followed by validateConfig.
providerTemperature(T) ==
  LET temperature == parseFloat(IF Truthy(T) THEN T
                                ELSE Num(DEFAULT_TEMPERATURE))
  IN IF isNaN(temperature) \/ temperature.n < 0 \/ temperature.n > 10
       THEN Num(DEFAULT_TEMPERATURE) ELSE temperature

providerMaxTokens(M) ==
  LET maxTokens == IF Truthy(M) THEN M ELSE Num(DEFAULT_MAX_TOKENS)
  IN IF isNaN(maxTokens) \/ ToNumber(maxTokens).n <= 0
       THEN Num(DEFAULT_MAX_TOKENS) ELSE maxTokens

\* claude-assistant.js builds requestPayload and posts it.
ClaudeAssistantRequest ==
  /\ payloadBy = "none"
  /\ payloadBy' = "claude-assistant"
  /\ requestPayload' =
       [temperature |-> claudeTemperature(modelConfig.Temperature),
        max_tokens |-> claudeMaxTokens(modelConfig.MaxTokens)]
  /\ UNCHANGED modelConfig

\* A provider of cors-handler.js is constructed and generateResponse posts
\* its requestPayload.
ProviderRequest ==
  /\ payloadBy = "none"
  /\ payloadBy' = "provider"
  /\ requestPayload' =
       [temperature |-> providerTemperature(modelConfig.Temperature),
        max_tokens |-> providerMaxTokens(modelConfig.MaxTokens)]
  /\ UNCHANGED modelConfig

----------------------------------------------------------------------------
(* The debounced auto-save in time                                         *)

AUTOSAVE_DELAY == 2000

\* Time is explored in steps of TickMs, half the delay, up to MaxTicks steps;
\* at most MaxEvents text-change events are explored.
TickMs == AUTOSAVE_DELAY \div 2
MaxTicks == 7
MaxEvents == 4

DebounceIdle ==
  /\ now = 0
  /\ timers = {}
  /\ timeoutId = 0
  /\ eventTimes = <<>>
  /\ editorText = 0
  /\ autoSaves = <<>>

\* A timer whose delay has elapsed runs before anything else happens.
NoTimerDue == \A t \in timers : now < t.due

\* The function debounce returns, without the clearTimeout.
debounce_NoClear(wait) ==
  LET id == Len(eventTimes) + 1
  IN /\ timers' = timers \cup {[id |-> id, due |-> now + wait]}
     /\ timeoutId' = id

\* The function debounce returns: clearTimeout(timeoutId), then
\* timeoutId = setTimeout(func, delay); wait is its parameter delay.
debounce(wait) ==
  LET id == Len(eventTimes) + 1
  IN /\ timers' = {t \in timers : t.id # timeoutId}
                    \cup {[id |-> id, due |-> now + wait]}
     /\ timeoutId' = id

\* quill.on('text-change'): the content has changed and debouncedUpdate()
\* is called.
TextChangeEvent ==
  /\ Len(eventTimes) < MaxEvents
  /\ NoTimerDue
  /\ eventTimes' = Append(eventTimes, now)
  /\ editorText' = editorText + 1
  /\ debounce(AUTOSAVE_DELAY)
  /\ UNCHANGED <<now, autoSaves>>

\* A timer's delay has elapsed: its callback calls updateAirtableRecord,
\* which reads quill.root.innerHTML.
TimerFires(t) ==
  /\ t.due <= now
  /\ timers' = timers \ {t}
  /\ autoSaves' = Append(autoSaves, [at |-> now, content |-> editorText])
  /\ UNCHANGED <<now, timeoutId, eventTimes, editorText>>

\* Time passes while no timer is due, and not beyond the next timer.
Tick ==
  /\ now < MaxTicks * TickMs
  /\ NoTimerDue
  /\ now' = IF \E t \in timers : t.due < now + TickMs
              THEN CHOOSE d \in {t.due : t \in timers} :
                     \A t \in timers : d <= t.due
              ELSE now + TickMs
  /\ UNCHANGED <<timers, timeoutId, eventTimes, editorText, autoSaves>>

----------------------------------------------------------------------------
(* Specifications                                                          *)

RetryInit ==
  RetryIdle /\ SaveIdle /\ VizIdle /\ ExtractIdle /\ ChatIdle /\ BackendIdle
    /\ ApplyIdle /\ PayloadIdle
  /\ PayloadIdle
  /\ DebounceIdle

RetryNext ==
  /\ \/ \E m \in 1..MaxRetriesBound : RetryStart(m)
     \/ OperationSucceeds
     \/ \E msg \in ErrorMessages : OperationFails(msg)
     \/ BackoffElapsed
     \/ RetriesExhausted
  /\ UNCHANGED <<saveVars, vizVars, extractVars, chatVars, placeVars,
                 backendVars, applyVars, payloadVars, debounceVars>>

RetrySpec == RetryInit /\ [][RetryNext]_vars /\ WF_vars(RetryNext)

SaveInit ==
  /\ RetryIdle
  /\ VizIdle
  /\ ExtractIdle
  /\ ChatIdle
  /\ BackendIdle
  /\ ApplyIdle
  /\ PayloadIdle
  /\ DebounceIdle
  /\ content = "v0"
  /\ timerPending = FALSE
  /\ inflight = {}
  /\ storeContent = "v0"
  /\ saves = <<>>
  /\ failedSaves = {}
  /\ edits = 0
  /\ hasRecordId \in BOOLEAN
  /\ saveStatus = ""

SaveNext ==
  /\ \/ \E c \in ContentValues : TextChange(c)
     \/ DebounceFires
     \/ ManualSave
     \/ \E r \in inflight : StoreApplies(r)
     \/ \E r \in inflight : SaveResponseOk(r)
     \/ \E r \in inflight : SaveFails(r)
     \/ StatusCleared
  /\ UNCHANGED <<retryVars, vizVars, extractVars, chatVars, placeVars,
                 backendVars, applyVars, payloadVars, debounceVars>>

SaveSpec == SaveInit /\ [][SaveNext]_vars

VizInit ==
  /\ RetryIdle
  /\ SaveIdle
  /\ ExtractIdle
  /\ ChatIdle
  /\ BackendIdle
  /\ ApplyIdle
  /\ PayloadIdle
  /\ DebounceIdle
  /\ doc \in SeqsUpTo(DocChars, MaxDocLen)
  /\ originalContent = <<>>
  /\ originalRange = NoRange
  /\ suggestedText = <<>>
  /\ changeControls = FALSE
  /\ vPc = "idle"
  /\ docBefore = doc

VizNext ==
  /\ \/ \E i \in 0..Len(doc) : \E n \in 0..(Len(doc) - i) :
          \E sugg \in SeqsUpTo({"x"}, MaxSuggestedLen) \ {<<>>} :
            showChanges([index |-> i, length |-> n], sugg)
     \/ applyChanges
     \/ rejectChanges
  /\ UNCHANGED <<retryVars, saveVars, extractVars, chatVars, placeVars,
                 backendVars, applyVars, payloadVars, debounceVars>>

VizSpec == VizInit /\ [][VizNext]_vars

ExtractInit ==
  /\ RetryIdle
  /\ SaveIdle
  /\ VizIdle
  /\ ChatIdle
  /\ BackendIdle
  /\ ApplyIdle
  /\ PayloadIdle
  /\ DebounceIdle
  /\ response \in SeqsUpTo(ResponseTokens, MaxRespLen)
  /\ result = Null
  /\ ePc = "ready"

ExtractNext ==
  /\ Extract
  /\ UNCHANGED <<retryVars, saveVars, vizVars, chatVars, placeVars,
                 backendVars, applyVars, payloadVars, debounceVars>>

ExtractSpec == ExtractInit /\ [][ExtractNext]_vars

\* The document of the chat runs: a heading and two paragraphs.
ChatDoc == <<"Head", NLH, "one", NL, "two", NL>>

\* The history after PriorExchanges answered requests without suggestion.
RECURSIVE PriorHistory(_)
PriorHistory(n) ==
  IF n = 0 THEN <<>>
  ELSE addToHistory(addToHistory(addToHistory(PriorHistory(n - 1),
         {"improve"}, "user"), ReplyText, "assistant"), ReplyText, "assistant")

\* The selections the editor reports: a paragraph with or without its
\* range, the heading, and a text beyond the size guard.
ChatSelections ==
  { [text |-> <<"one">>, range |-> [index |-> 2, length |-> 1]],
    [text |-> <<"<h1>", "Head", "</h1>">>, range |-> NoRange],
    [text |-> HugeText, range |-> NoRange] }

ChatInit ==
  /\ RetryIdle
  /\ SaveIdle
  /\ VizIdle
  /\ ExtractIdle
  /\ BackendIdle
  /\ ApplyIdle
  /\ PayloadIdle
  /\ DebounceIdle
  /\ core \in {"part_003", "part_004"}
  /\ chatHistory \in {<<>>, PriorHistory(PriorExchanges)}
  /\ currentlySelectedText = <<>>
  /\ currentlySelectedRange = NoRange
  /\ lastAIMessage = NoAIMessage
  /\ singleSuggestion = NoSuggestion
  /\ cPc = "idle"
  /\ message = {}
  /\ payloadSelectedText = <<>>
  /\ payloadSelectionRange = NoRange
  /\ sendOutcome = "none"
  /\ sendResult = NoResult
  /\ shown = "<none>"
  /\ turns = 0
  /\ quillDoc = ChatDoc
  /\ updateVia = "none"
  /\ updateOptions = NoOptions
  /\ updateContent = <<>>
  /\ updateRequest = NoRequest
  /\ docAtUpdate = ChatDoc
  /\ updateResult = "none"

\* The steps of retryOperation inside part_003's sendToAI.
RetryStep003 ==
  /\ core = "part_003"
  /\ cPc = "awaiting"
  /\ \/ OperationSucceeds
     \/ \E msg \in FetchErrors003 : OperationFails(msg)
     \/ BackoffElapsed
     \/ RetriesExhausted
  /\ UNCHANGED <<chatVars, placeVars>>

ChatNext ==
  /\ \/ \E sel \in ChatSelections : HandleTextSelection(sel.text, sel.range)
     \/ ContentUpdated
     \/ \E m \in ChatMessages : HandleRegularMessage(m)
     \/ RetryStep003
     \/ FetchSucceeds004
     \/ \E msg \in FetchErrors004 : FetchFails004(msg)
     \/ \E jsonOk \in BOOLEAN : \E reply \in ReplyKinds :
          SendToAIReturns(jsonOk, reply)
     \/ HandleImplementationCommand
     \/ \E n \in 1..3 : HandleOptionSelection(n)
     \/ \E n \in 1..2 : ImplementButtonClick(n)
     \/ ApplyButtonClick
  /\ UNCHANGED <<saveVars, vizVars, extractVars, backendVars, applyVars, payloadVars, debounceVars>>

ChatSpec == ChatInit /\ [][ChatNext]_vars

\* Bound on the lines of the documents explored.
MaxLines == 3

\* The lines a document is made of: the heading, two paragraphs, and an
\* empty paragraph.
LineKinds == {<<"Head", NLH>>, <<"one", NL>>, <<"two", NL>>, <<NL>>}

PlaceDocs ==
  {Concat(ls) : ls \in UNION {[1..k -> LineKinds] : k \in 1..MaxLines}}

\* The user requests explored: every placement keyword alone, and requests
\* without placement keyword or with two of them.
PlaceRequests ==
  {{k} : k \in PlacementKeywords \ {"ending"}}
    \cup {{}, {"improve"}, {"ending", "end"}, {"headline", "bottom"}}

\* The suggestions explored, and the selected texts a reply may refer to.
PlaceContents ==
  {<<"<p>para</p>">>, <<"<h1>New</h1>">>, <<"text">>, <<"<p>ok</p>">>}

OriginalSelections ==
  {<<>>, <<"one">>, <<"<h1>", "Head", "</h1>">>, <<"gone">>}

PlaceInit ==
  /\ RetryIdle
  /\ SaveIdle
  /\ VizIdle
  /\ ExtractIdle
  /\ BackendIdle
  /\ ApplyIdle
  /\ PayloadIdle
  /\ DebounceIdle
  /\ core = "part_003"
  /\ chatHistory = <<>>
  /\ quillDoc \in PlaceDocs
  /\ \E sel \in {<<>>, <<"headline">>, <<"word">>} :
       /\ currentlySelectedText =
            IF sel = <<"word">> THEN SubSeq(quillText(quillDoc), 1, 1)
            ELSE sel
       /\ currentlySelectedRange =
            IF sel = <<"word">> THEN [index |-> 0, length |-> 1] ELSE NoRange
  /\ lastAIMessage = NoAIMessage
  /\ singleSuggestion = NoSuggestion
  /\ cPc = "idle"
  /\ message = {}
  /\ payloadSelectedText = <<>>
  /\ payloadSelectionRange = NoRange
  /\ sendOutcome = "none"
  /\ sendResult = NoResult
  /\ shown = "<none>"
  /\ turns = 0
  /\ updateVia = "none"
  /\ updateOptions = NoOptions
  /\ updateContent = <<>>
  /\ updateRequest = NoRequest
  /\ docAtUpdate = quillDoc
  /\ updateResult = "none"

PlaceNext ==
  /\ \E newContent \in PlaceContents :
       \E originalSelected \in OriginalSelections :
         \E userRequest \in PlaceRequests :
           ImplementOptionCall(newContent, originalSelected, userRequest)
  /\ UNCHANGED <<saveVars, vizVars, extractVars, backendVars, applyVars, payloadVars, debounceVars>>

PlaceSpec == PlaceInit /\ [][PlaceNext]_vars

\* The history after the request r was answered without suggestion and a
\* second request was answered with a single suggestion: sendToAI adds the
\* message and the reply, handleRegularMessage adds the reply again.
HistoryOfTwoRequests(r) ==
  LET answered(h, m) ==
        addToHistory(addToHistory(addToHistory(h, m, "user"),
                                  ReplyText, "assistant"),
                     ReplyText, "assistant")
  IN answered(answered(<<>>, r), {"improve"})

\* A single suggestion waits for its Apply button, nothing is selected, and
\* the request before the last one names the place of the suggestion.
SpliceInit ==
  /\ RetryIdle
  /\ SaveIdle
  /\ VizIdle
  /\ ExtractIdle
  /\ BackendIdle
  /\ ApplyIdle
  /\ PayloadIdle
  /\ DebounceIdle
  /\ core = "part_003"
  /\ \E r \in PlaceRequests : chatHistory = HistoryOfTwoRequests(r)
  /\ quillDoc \in PlaceDocs
  /\ currentlySelectedText = <<>>
  /\ currentlySelectedRange = NoRange
  /\ lastAIMessage = NoAIMessage
  /\ \E c \in PlaceContents :
       singleSuggestion = [present |-> TRUE, selectedText |-> <<>>,
                           selectionRange |-> NoRange, content |-> c]
  /\ cPc = "idle"
  /\ message = {}
  /\ payloadSelectedText = <<>>
  /\ payloadSelectionRange = NoRange
  /\ sendOutcome = "returned"
  /\ sendResult = [message |-> "<reply>", errorType |-> "<none>",
                   suggested |-> TRUE]
  /\ shown = "<reply>"
  /\ turns = 0
  /\ updateVia = "none"
  /\ updateOptions = NoOptions
  /\ updateContent = <<>>
  /\ updateRequest = NoRequest
  /\ docAtUpdate = quillDoc
  /\ updateResult = "none"

\* The suggestion is applied by its Apply button, or by implementOption with
\* the same request.
SpliceNext ==
  /\ \/ ApplyButtonClick
     \/ ImplementOptionCall(singleSuggestion.content, <<>>,
                            relevantRequest(chatHistory))
  /\ UNCHANGED <<saveVars, vizVars, extractVars, backendVars, applyVars,
                 payloadVars, debounceVars>>

SpliceSpec == SpliceInit /\ [][SpliceNext]_vars

BackendInit ==
  /\ RetryIdle
  /\ SaveIdle
  /\ VizIdle
  /\ ExtractIdle
  /\ ChatIdle
  /\ ApplyIdle
  /\ PayloadIdle
  /\ DebounceIdle
  /\ endpoint = "none"
  /\ assistantRecords \in
       [AssistantIds -> [Key : AssistantKeys, Active : BOOLEAN]]
  /\ linkedAssistantIds \in SUBSET AssistantIds
  /\ assistantType \in AssistantKeys
  /\ httpResponse = NoResponse
  /\ providerConfig = NoConfig
  /\ apiError = NoApiError

BackendNext ==
  /\ \E httpMethod \in {"OPTIONS", "POST"} :
       \E bodyOk \in BOOLEAN :
         \E upstream \in UpstreamOutcomes :
           \/ \E operation \in {"", "test", "getAssistants", "updateContent",
                                "other"} :
                AirtableProxy(httpMethod, bodyOk, operation, upstream)
           \/ \E paramsOk \in BOOLEAN :
                \E keysOk \in BOOLEAN :
                  \E store \in StoreOutcomes :
                    \E tooLarge \in BOOLEAN :
                      ClaudeAssistant(httpMethod, bodyOk, paramsOk, keysOk,
                                      store, tooLarge, upstream)
           \/ \E paramsOk \in BOOLEAN :
                \E contentOk \in BOOLEAN :
                  AiAssistant(httpMethod, bodyOk, paramsOk, contentOk,
                              upstream)
  /\ UNCHANGED <<retryVars, saveVars, vizVars, extractVars, chatVars,
                 placeVars, applyVars, payloadVars, debounceVars>>

BackendSpec == BackendInit /\ [][BackendNext]_vars

\* The editor as it is when no suggestion was applied yet: untouched, or
\* just after showChanges put a visualization into the document.
AutoSaveInit ==
  /\ RetryIdle
  /\ VizIdle
  /\ ExtractIdle
  /\ ChatIdle
  /\ BackendIdle
  /\ PayloadIdle
  /\ DebounceIdle
  /\ appliedVia = "none"
  /\ appliedAt = -1
  /\ domEventPending = FALSE
  /\ vizPending \in BOOLEAN
  /\ content = IF vizPending THEN VisualizationContent ELSE "v0"
  /\ timerPending = vizPending
  /\ inflight = {}
  /\ storeContent = "v0"
  /\ saves = <<>>
  /\ failedSaves = {}
  /\ edits = 0
  /\ hasRecordId \in BOOLEAN
  /\ saveStatus = IF vizPending THEN "saving" ELSE ""

\* The debounce timer of setupEditorControls, run by the browser's event loop.
AutoSaveTimer ==
  /\ DebounceFires
  /\ UNCHANGED <<applyVars, retryVars, vizVars, extractVars, chatVars,
                 placeVars, backendVars, payloadVars, debounceVars>>

\* The user acts only before a suggestion is applied, and does not type
\* while a visualization is shown; afterwards the timers and the record
\* store alone move.
AutoSaveNext ==
  \/ /\ \/ /\ appliedVia = "none"
           /\ ~vizPending
           /\ \E c \in ContentValues : TextChange(c)
        \/ /\ appliedVia = "none"
           /\ ManualSave
        \/ \E r \in inflight : StoreApplies(r)
        \/ \E r \in inflight : SaveResponseOk(r)
        \/ \E r \in inflight : SaveFails(r)
        \/ StatusCleared
     /\ UNCHANGED <<applyVars, retryVars, vizVars, extractVars, chatVars,
                    placeVars, backendVars, payloadVars, debounceVars>>
  \/ AutoSaveTimer
  \/ /\ \/ \E c \in ContentValues : ApplyChangesAccepted(c)
        \/ \E c \in ContentValues : DirectQuillUpdateApplied(c)
        \/ DomEventDispatched
     /\ UNCHANGED <<retryVars, vizVars, extractVars, chatVars, placeVars,
                    backendVars, payloadVars, debounceVars>>

AutoSaveSpec ==
  AutoSaveInit /\ [][AutoSaveNext]_vars /\ WF_vars(AutoSaveTimer)

VizSaveInit ==
  /\ RetryIdle
  /\ VizIdle
  /\ ExtractIdle
  /\ ChatIdle
  /\ BackendIdle
  /\ ApplyIdle
  /\ PayloadIdle
  /\ DebounceIdle
  /\ content = "v0"
  /\ timerPending = FALSE
  /\ inflight = {}
  /\ storeContent = "v0"
  /\ saves = <<>>
  /\ failedSaves = {}
  /\ edits = 0
  /\ hasRecordId \in BOOLEAN
  /\ saveStatus = ""

\* The visualizer and the timers act on an editor the user only watches.
VizSaveNext ==
  \/ /\ \/ \E r \in inflight : StoreApplies(r)
        \/ \E r \in inflight : SaveResponseOk(r)
        \/ \E r \in inflight : SaveFails(r)
        \/ StatusCleared
     /\ UNCHANGED <<applyVars, retryVars, vizVars, extractVars, chatVars,
                    placeVars, backendVars, payloadVars, debounceVars>>
  \/ AutoSaveTimer
  \/ /\ \/ ShowChangesShown
        \/ \E c \in ContentValues : RejectChangesRestored(c)
        \/ \E c \in ContentValues : ApplyChangesAccepted(c)
        \/ DomEventDispatched
     /\ UNCHANGED <<retryVars, vizVars, extractVars, chatVars, placeVars,
                    backendVars, payloadVars, debounceVars>>

VizSaveSpec == VizSaveInit /\ [][VizSaveNext]_vars

PayloadInit ==
  /\ RetryIdle
  /\ SaveIdle
  /\ VizIdle
  /\ ExtractIdle
  /\ ChatIdle
  /\ BackendIdle
  /\ ApplyIdle
  /\ DebounceIdle
  /\ modelConfig \in [Temperature : TemperatureValues,
                      MaxTokens : MaxTokensValues]
  /\ payloadBy = "none"
  /\ requestPayload = [temperature |-> Undef, max_tokens |-> Undef]

PayloadNext ==
  /\ \/ ClaudeAssistantRequest
     \/ ProviderRequest
  /\ UNCHANGED <<retryVars, saveVars, vizVars, extractVars, chatVars,
                 placeVars, backendVars, applyVars, debounceVars>>

PayloadSpec == PayloadInit /\ [][PayloadNext]_vars

DebounceInit ==
  /\ RetryIdle
  /\ SaveIdle
  /\ VizIdle
  /\ ExtractIdle
  /\ ChatIdle
  /\ BackendIdle
  /\ ApplyIdle
  /\ PayloadIdle
  /\ DebounceIdle

DebounceNext ==
  /\ \/ TextChangeEvent
     \/ \E t \in timers : TimerFires(t)
     \/ Tick
  /\ UNCHANGED <<retryVars, saveVars, vizVars, extractVars, chatVars,
                 placeVars, backendVars, applyVars, payloadVars>>

DebounceSpec == DebounceInit /\ [][DebounceNext]_vars

----------------------------------------------------------------------------
(* Claims about retryOperation                                             *)

TokenLimitClassified(msg) ==
  msg \cap {"token limit", "max tokens", "content too long"} # {}

TimeoutClassified(msg) == msg \cap {"timeout", "ETIMEDOUT", "504"} # {}

\* C1: when an attempt fails with a token-limit-classified error the wrapper
\* stops at once: that failure is the last one, the operation has been invoked
\* exactly once per failure, no backoff delay follows the failure, and the
\* wrapper has thrown.
C1_TokenLimitStopsImmediately ==
  \A i \in 1..Len(failures) :
    TokenLimitClassified(failures[i]) =>
      /\ i = Len(failures)
      /\ calls = i
      /\ Len(waits) = i - 1
      /\ rPc = "done"
      /\ outcome = "thrown"

C1_Witness ==
  /\ rPc = "done"
  /\ Len(failures) = 2
  /\ "max tokens" \in failures[2]
  /\ maxRetries = MAX_RETRY_ATTEMPTS

\* C2: when two successive attempts fail with timeout-classified errors, the
\* delay waited after the second failure is strictly greater than the delay
\* waited after the first.
C2_TimeoutDelaysIncrease ==
  \A i \in 2..Len(waits) :
    (TimeoutClassified(failures[i - 1]) /\ TimeoutClassified(failures[i]))
      => waits[i] > waits[i - 1]

C2_Witness ==
  /\ Len(waits) >= 2
  /\ TimeoutClassified(failures[1])
  /\ TimeoutClassified(failures[2])
  /\ ~isOverloaded(failures[2])

\* C3: the operation is invoked at most maxRetries times, the wrapper always
\* terminates, and when it terminates without a successful attempt it has
\* thrown an error.
C3_BoundedAttemptsThenThrow ==
  /\ [](calls <= maxRetries)
  /\ <>(rPc = "done")
  /\ [](rPc = "done" =>
          \/ outcome = "returned" /\ calls = Len(failures) + 1
          \/ outcome = "thrown" /\ calls = Len(failures) /\ thrown # NoError)

C3_Witness ==
  /\ rPc = "done"
  /\ outcome = "thrown"
  /\ maxRetries = MAX_RETRY_ATTEMPTS
  /\ calls = MAX_RETRY_ATTEMPTS

----------------------------------------------------------------------------
(* Claims about the auto-save                                              *)

\* C4: no two PATCH requests triggered by text-change events (the debounced
\* auto-saves) are in flight at the same time.
C4_AutoSavesNeverOverlap ==
  Cardinality({r \in inflight : r.auto}) <= 1

\* C5: once every issued save has completed successfully, the record store
\* holds the content sent by the save that was issued last.
C5_LastSaveWins ==
  (Len(saves) > 0 /\ inflight = {} /\ failedSaves = {})
    => storeContent = saves[Len(saves)].content

----------------------------------------------------------------------------
(* Claims about the InlineChangeVisualizer                                 *)

\* C6: after showChanges followed by rejectChanges the editor text is the
\* text it was before showChanges, for every range, the empty one included.
C6_RejectRestoresDocument ==
  vPc = "rejected" => doc = docBefore

\* C7: after showChanges followed by applyChanges the editor text is the
\* text before showChanges with the target range replaced by the suggested
\* text: no marker remains and nothing outside the range is deleted.
C7_ApplyReplacesOnlyTheRange ==
  vPc = "applied" =>
    doc = SubSeq(docBefore, 1, originalRange.index) \o suggestedText
            \o SubSeq(docBefore, originalRange.index + originalRange.length + 1,
                      Len(docBefore))

----------------------------------------------------------------------------
(* Claims about extractSuggestedContent                                    *)

\* The delimiter styles, stated on the reply itself.
HasBlock(r, open, close) ==
  \E i, j \in 1..Len(r) : i < j /\ r[i] = open /\ r[j] = close

\* The text between the first `open` and the first `close` after it.
BlockInner(r, open, close) ==
  LET i == CHOOSE i \in 1..Len(r) :
             r[i] = open /\ \A k \in 1..(i - 1) : r[k] # open
      j == CHOOSE j \in (i + 1)..Len(r) :
             r[j] = close /\ \A k \in (i + 1)..(j - 1) : r[k] # close
  IN SubSeq(r, i + 1, j - 1)

StyleOptions(r) == HasBlock(r, "[OPTIONS]", "[/OPTIONS]")
StyleRewrite(r) == HasBlock(r, "[REWRITE]", "[/REWRITE]")
StyleSuggested(r) == \E i \in 1..Len(r) : r[i] = "Suggested Content:"
StyleFence(r) == HasBlock(r, "~~~", "~~~")
\* An 'Option N:' header that is not one of the options of an [OPTIONS] block.
StyleOptionN(r) ==
  \E i \in 1..Len(r) :
    /\ r[i] \in OptionHeaders
    /\ ~ \E a, b \in 1..Len(r) :
          a < i /\ i < b /\ r[a] = "[OPTIONS]" /\ r[b] = "[/OPTIONS]"

StylesPresent(r) ==
  (IF StyleOptions(r) THEN {"options"} ELSE {})
    \cup (IF StyleRewrite(r) THEN {"rewrite"} ELSE {})
    \cup (IF StyleOptionN(r) THEN {"optionN"} ELSE {})
    \cup (IF StyleSuggested(r) THEN {"suggested"} ELSE {})
    \cup (IF StyleFence(r) THEN {"fence"} ELSE {})

StylePriority ==
  [options |-> 1, rewrite |-> 2, optionN |-> 3, suggested |-> 4, fence |-> 5]

\* The highest-priority style present.
Winner(r) ==
  CHOOSE w \in StylesPresent(r) :
    \A v \in StylesPresent(r) : StylePriority[w] <= StylePriority[v]

\* The fragment each style delimits.
SuffixFrom(r, toks) ==
  LET i == CHOOSE i \in 1..Len(r) :
             r[i] \in toks /\ \A k \in 1..(i - 1) : r[k] \notin toks
  IN SubSeq(r, i, Len(r))

SectionAfterHeading(r) ==
  LET afterHeading == Tail(SuffixFrom(r, {"Suggested Content:"}))
  IN IF StyleSuggested(afterHeading)
       THEN LET rest == SuffixFrom(afterHeading, {"Suggested Content:"})
            IN SubSeq(afterHeading, 1, Len(afterHeading) - Len(rest))
       ELSE afterHeading

LastFenceInner(r) ==
  LET ij == CHOOSE ij \in (1..Len(r)) \X (1..Len(r)) :
              /\ ij[1] < ij[2]
              /\ r[ij[1]] = "~~~" /\ r[ij[2]] = "~~~"
              /\ \A k \in (ij[1] + 1)..(ij[2] - 1) : r[k] # "~~~"
              /\ Cardinality({k \in 1..(ij[1] - 1) : r[k] = "~~~"}) % 2 = 0
              /\ Cardinality({k \in (ij[2] + 1)..Len(r) : r[k] = "~~~"}) <= 1
  IN SubSeq(r, ij[1] + 1, ij[2] - 1)

Fragment(r, style) ==
  CASE style = "options" -> BlockInner(r, "[OPTIONS]", "[/OPTIONS]")
    [] style = "rewrite" -> BlockInner(r, "[REWRITE]", "[/REWRITE]")
    [] style = "optionN" -> SuffixFrom(r, OptionHeaders)
    [] style = "suggested" ->
         LET sec == SectionAfterHeading(r)
         IN IF StyleFence(sec) THEN BlockInner(sec, "~~~", "~~~")
            ELSE IF \E i \in 1..Len(sec) : sec[i] \in TagTokens
              THEN SuffixFrom(sec, TagTokens)
              ELSE sec
    [] style = "fence" -> LastFenceInner(r)

\* What a text says once the markup the function adds around it, the option
\* headers, stray fences and whitespace are set aside.
Formatting ==
  {"<p>", "</p>", OptionsDivOpen, DivClose, OptionClose, "~~~"}
    \cup {OptionOpen[h] : h \in OptionHeaders} \cup OptionHeaders
    \cup Whitespace

Payload(s) == SelectSeq(s, LAMBDA t : t \notin Formatting)

\* The same, also setting aside the paragraphs sanitizeContent removes.
KeptPayload(s) == SelectSeq(Payload(s), LAMBDA t : t # "<p>ok</p>")

\* C8: the patterns form an ordered chain and the first matching one wins:
\* when a reply holds more than one delimiter style, the result is built from
\* the fragment of the highest-priority style present, in the order [OPTIONS],
\* [REWRITE], 'Option N:', 'Suggested Content:', code fence.
C8_FirstMatchingPatternWins ==
  (ePc = "done" /\ Cardinality(StylesPresent(response)) >= 2) =>
    /\ result # Null
    /\ KeptPayload(result) = KeptPayload(Fragment(response, Winner(response)))
    /\ Winner(response) = "options" =>
         (Len(result) > 0 /\ result[1] = OptionsDivOpen)

C8_Witness ==
  /\ ePc = "done"
  /\ StyleOptions(response) /\ StyleRewrite(response)
  /\ KeptPayload(Fragment(response, "options"))
       # KeptPayload(Fragment(response, "rewrite"))
  /\ KeptPayload(result) # <<>>

\* C9 as claimed: a reply with none of the five delimiter patterns yields
\* null.
C9_NoPatternGivesNull ==
  (ePc = "done" /\ StylesPresent(response) = {}) => result = Null

\* A reply holding both [COMMENT] and [/COMMENT], with text that is not blank
\* after the first [/COMMENT].
HasCommentWithTrailingText(r) ==
  /\ \E i \in 1..Len(r) : r[i] = "[COMMENT]"
  /\ \E j \in 1..Len(r) :
       /\ r[j] = "[/COMMENT]"
       /\ \A k \in 1..(j - 1) : r[k] # "[/COMMENT]"
       /\ \E k \in (j + 1)..Len(r) : r[k] \notin Whitespace

\* C9 (amended): a reply with none of the five delimiter patterns yields null
\* unless it holds both [COMMENT] and [/COMMENT] with non-blank text after the
\* first [/COMMENT].
C9_NoPatternNoCommentGivesNull ==
  (ePc = "done" /\ StylesPresent(response) = {}) =>
    (~HasCommentWithTrailingText(response) => result = Null)

C9_Witness ==
  /\ ePc = "done"
  /\ StylesPresent(response) = {}
  /\ \E i \in 1..Len(response) : response[i] = "[/COMMENT]"
  /\ \E i \in 1..Len(response) : response[i] = "~~~"
  /\ ~HasCommentWithTrailingText(response)
  /\ result = Null

\* C10: when exactly one delimiter style is present, the result carries the
\* fragment enclosed by (or following) that delimiter.
C10_SingleStyleReturnsFragment ==
  (ePc = "done" /\ Cardinality(StylesPresent(response)) = 1) =>
    /\ result # Null
    /\ Payload(result) = Payload(Fragment(response, Winner(response)))

----------------------------------------------------------------------------
(* Claims about the assistant chat                                         *)

\* The most recent user request recorded in the chat history.
LastUserMessage(h) ==
  LET userRequests == SelectSeq(h, LAMBDA e : e.role = "user")
  IN IF Len(userRequests) >= 1
       THEN userRequests[Len(userRequests)].content ELSE {}

\* A step in which a chat handler applies a suggestion whose placement is
\* taken from a user request (no selection was stored).
AppliesByRequest ==
  /\ turns' = turns + 1
  /\ chatHistory' = chatHistory
  /\ updateVia' \in {"command", "selection", "button", "apply"}
  /\ updateRequest' # NoRequest
  /\ placeVars' # placeVars

\* C11: when a suggestion is applied without a stored selection, the splice
\* strategy is the one keyword matching gives for the most recent user
\* request in the chat history at that time.
C11_StrategyFromLastUserMessage ==
  [][AppliesByRequest =>
       interpretRequest(updateRequest')
         = interpretRequest(LastUserMessage(chatHistory))]_vars

\* A step that ends a call of sendToAI.
SendToAIEnds ==
  \/ cPc = "awaiting" /\ cPc' = "idle"
  \/ cPc = "idle" /\ cPc' = "idle" /\ chatHistory' # chatHistory

\* C13: sendToAI never throws to its caller; every failure yields a result
\* object with a user-facing message, and handleRegularMessage shows that
\* message in the chat.
C13_FailuresBecomeChatMessages ==
  [][SendToAIEnds =>
       /\ sendOutcome' = "returned"
       /\ sendResult'.message # "<none>"
       /\ shown' = sendResult'.message]_vars

\* A failed request was answered with an error message in the chat.
C13_Witness ==
  /\ sendOutcome = "returned"
  /\ sendResult.errorType = "rate_limit"
  /\ shown = "I'm getting too many requests right now"
  /\ Len(chatHistory) > 0
  /\ chatHistory[Len(chatHistory)].content = ErrorText

\* The backend rejected the request as too large.
IsContentTooLarge(msg) ==
  msg \cap {"Content too large", "Selected text too large"} # {}

\* C16: a request the backend rejects as too large is sent exactly once.
C16_ContentTooLargeSentOnce ==
  (Len(failures) > 0 /\ IsContentTooLarge(failures[1])) => calls = 1

\* A transient provider error: timeout or rate limit.
IsTransient(msg) == msg \cap {"status: 408", "status: 429"} # {}

\* C17: when the network call fails with a transient error, the client has
\* made a further attempt after a delay by the time the call is given up.
C17_TransientErrorIsRetried ==
  (rPc = "done" /\ outcome = "thrown" /\ Len(failures) > 0
     /\ IsTransient(failures[1]))
    => (calls >= 2 /\ Len(waits) >= 1)

\* C18: chatHistory never holds more than HISTORY_LIMIT entries.
C18_HistoryCapped == Len(chatHistory) <= HISTORY_LIMIT

----------------------------------------------------------------------------
(* Claims about the placement of a suggestion                              *)

\* C12: for a user message without placement keyword, interpretRequest
\* selects 'end' and directQuillUpdate puts the new content after the
\* existing content, which stays as it was.
C12_NoKeywordAppendsAtEnd ==
  (updateVia = "call" /\ updateResult = "true" /\ updateRequest # NoRequest
     /\ updateRequest \cap PlacementKeywords = {})
    => /\ updateOptions.position = "end"
       /\ Len(quillDoc) >= Len(docAtUpdate)
       /\ SubSeq(quillDoc, 1, Len(docAtUpdate)) = docAtUpdate
       /\ LET added == SubSeq(quillDoc, Len(docAtUpdate) + 1, Len(quillDoc))
              pasted == convert(sanitizeContent(updateContent))
          IN added = IF pasted = <<>> \/ pasted[Len(pasted)] \in Newlines
                       THEN pasted ELSE Append(pasted, NL)

\* A paragraph was appended to a document of a heading and a paragraph on a
\* request without placement keyword.
C12_Witness ==
  /\ updateVia = "call"
  /\ updateRequest = {"improve"}
  /\ updateOptions.position = "end"
  /\ docAtUpdate = <<"Head", NLH, "one", NL>>
  /\ quillDoc = <<"Head", NLH, "one", NL, "para", NL>>

----------------------------------------------------------------------------
(* Claims about the serverless functions                                   *)

\* C14: every invocation of a backend handler ends by returning a response
\* that carries a status code and the CORS headers.
C14_HandlersAlwaysRespond ==
  endpoint # "none" => (httpResponse.statusCode > 0 /\ httpResponse.headers)

\* C15: a provider call is never built from the configuration of an
\* assistant that is not linked to the content record.
C15_OnlyLinkedAssistantUsed ==
  providerConfig \in AssistantIds => providerConfig \in linkedAssistantIds

----------------------------------------------------------------------------
(* Claims about the auto-save after an applied suggestion                  *)

\* C19: once a suggestion was accepted in the visualizer or applied by
\* directQuillUpdate and a record id is present, a save of the resulting
\* editor content is eventually issued without further user action.
C19_AppliedChangeIsSaved ==
  (appliedVia # "none" /\ hasRecordId)
    ~> (/\ Len(saves) > appliedAt
        /\ appliedAt >= 0
        /\ saves[Len(saves)].content = content
        /\ saves[Len(saves)].auto)

\* The content produced by an accepted suggestion was sent by the debounced
\* update after the DOM event had been dispatched to no effect.
C19_Witness ==
  /\ appliedVia = "applyChanges"
  /\ hasRecordId
  /\ ~domEventPending
  /\ Len(saves) = appliedAt + 1
  /\ saves[Len(saves)].content = content
  /\ saves[Len(saves)].auto

----------------------------------------------------------------------------
(* Further claims about retryOperation and the assistant chat              *)

\* C22: the errorType handleApiError gives for the error retryOperation
\* throws agrees with the wrapper's own class of the failure: 'token_limit'
\* after a token-limit stop, 'timeout' after retries exhausted by timeouts.
C22_ErrorTypeAgreesWithRetryClass ==
  (rPc = "done" /\ outcome = "thrown" /\ Len(failures) > 0)
    => LET last == failures[Len(failures)]
           errorType == sendToAICatch(thrown).result.errorType
       IN /\ isTokenLimitError(last) => errorType = "token_limit"
          /\ (/\ ~isTokenLimitError(last)
              /\ \A i \in 1..Len(failures) : isTimeout(failures[i]))
               => errorType = "timeout"

\* A step that completes the handling of a user message: the end of
\* handleRegularMessage, of handleImplementationCommand or of
\* handleOptionSelection.
UserMessageHandled ==
  \/ cPc = "awaiting" /\ cPc' = "idle"
  \/ cPc' = "idle" /\ \E m \in ChatMessages : HandleRegularMessage(m)
  \/ HandleImplementationCommand
  \/ \E n \in 1..3 : HandleOptionSelection(n)

\* C26: when a user message has been handled, no selection is stored any
\* more: currentlySelectedText and currentlySelectedRange are both null.
C26_SelectionClearedAfterMessage ==
  [][UserMessageHandled =>
       /\ currentlySelectedText' = <<>>
       /\ currentlySelectedRange' = NoRange]_vars

\* A step that ends a successful regular exchange whose entries all fit
\* under the cap of the history.
SuccessfulExchangeEnds ==
  /\ cPc = "awaiting"
  /\ cPc' = "idle"
  /\ sendOutcome' = "returned"
  /\ sendResult'.errorType = "<none>"
  /\ Len(chatHistory) + 3 <= HISTORY_LIMIT

\* C27: a successful regular exchange appends exactly one user entry and
\* exactly one assistant entry to chatHistory.
C27_OneEntryPerRole ==
  [][SuccessfulExchangeEnds =>
       /\ Len(chatHistory') = Len(chatHistory) + 2
       /\ chatHistory'[Len(chatHistory) + 1].role = "user"
       /\ chatHistory'[Len(chatHistory) + 2].role = "assistant"]_vars

----------------------------------------------------------------------------
(* Claims about the error answers of claude-assistant                      *)

IsTokenLimitApiError(e) ==
  e.message \cap {"token limit", "max tokens", "too many tokens"} # {}

IsTimeoutApiError(e) ==
  e.message \cap {"timeout", "ETIMEDOUT", "504"} # {}

\* C29 as stated: a failed provider call is answered with 400 for a
\* token-limit error, 408 for a timeout error, 429 when the provider
\* answered 429, and 500 for every other error.
C29_StatusByErrorClass ==
  (endpoint = "claude-assistant" /\ apiError.from = "provider")
    => /\ IsTokenLimitApiError(apiError) => httpResponse.statusCode = 400
       /\ IsTimeoutApiError(apiError) => httpResponse.statusCode = 408
       /\ apiError.status = 429 => httpResponse.statusCode = 429
       /\ (/\ ~IsTokenLimitApiError(apiError)
           /\ ~IsTimeoutApiError(apiError)
           /\ apiError.status # 429) => httpResponse.statusCode = 500

\* C29, amended: when an error falls into several classes the later check
\* wins: 429 before timeout (408) before token limit (400), else 500.
C29_StatusByLastMatchingClass ==
  (endpoint = "claude-assistant" /\ apiError.from = "provider")
    => httpResponse.statusCode =
         IF apiError.status = 429 THEN 429
         ELSE IF IsTimeoutApiError(apiError) THEN 408
         ELSE IF IsTokenLimitApiError(apiError) THEN 400
         ELSE 500

\* A provider error that is both a token-limit and a timeout error was
\* answered with 408.
C29_Witness ==
  /\ endpoint = "claude-assistant"
  /\ apiError.from = "provider"
  /\ IsTokenLimitApiError(apiError)
  /\ IsTimeoutApiError(apiError)
  /\ httpResponse.statusCode = 408

----------------------------------------------------------------------------
(* Claims about the payload of a provider request                          *)

\* A Temperature field that is missing, not numeric or outside [0, 1].
InvalidTemperature(T) ==
  \/ T.t \in {"undefined", "null", "empty", "text"}
  \/ T.n < 0
  \/ T.n > 10

\* A MaxTokens field that is missing, not numeric or not positive.
InvalidMaxTokens(M) ==
  \/ M.t \in {"undefined", "null", "empty", "text"}
  \/ M.n <= 0

\* C30: a request sent to a provider carries a temperature within [0, 1]
\* and a positive max_tokens, and invalid fields of the configuration are
\* replaced by 0.7 and 4000.
C30_PayloadWithinRange ==
  payloadBy # "none"
    => /\ requestPayload.temperature.t = "number"
       /\ requestPayload.temperature.n >= 0
       /\ requestPayload.temperature.n <= 10
       /\ ~isNaN(requestPayload.max_tokens)
       /\ ToNumber(requestPayload.max_tokens).n > 0
       /\ InvalidTemperature(modelConfig.Temperature)
            => requestPayload.temperature = Num(DEFAULT_TEMPERATURE)
       /\ InvalidMaxTokens(modelConfig.MaxTokens)
            => requestPayload.max_tokens = Num(DEFAULT_MAX_TOKENS)

\* A request was built from a temperature of 1.5 and a negative MaxTokens.
C30_Witness ==
  /\ payloadBy = "claude-assistant"
  /\ modelConfig = [Temperature |-> Num(15), MaxTokens |-> Num(-50)]
  /\ requestPayload = [temperature |-> Num(DEFAULT_TEMPERATURE),
                       max_tokens |-> Num(DEFAULT_MAX_TOKENS)]

----------------------------------------------------------------------------
(* Claims about what is saved and what the status indicator shows          *)

\* C21: no save issued to the record store carries the document as it is
\* while a visualization is pending (original text, markers and suggested
\* text side by side).
C21_VisualizationNeverSaved ==
  \A i \in 1..Len(saves) : saves[i].content # VisualizationContent

\* C24: 'Saved' is shown only when the editor still holds the content the
\* successful save captured.
C24_SavedMeansNoLaterEdits ==
  [][\A r \in inflight :
       (SaveResponseOk(r) /\ saveStatus' = "saved") => content = r.content]_vars

----------------------------------------------------------------------------
(* Claims about the debounced auto-save                                    *)

\* Event i is the last of its burst: no later event follows it within
\* AUTOSAVE_DELAY.
LastOfBurst(i) ==
  \/ i = Len(eventTimes)
  \/ eventTimes[i + 1] - eventTimes[i] >= AUTOSAVE_DELAY

\* The auto-saves started AUTOSAVE_DELAY after event i.
SavesOfEvent(i) ==
  {k \in 1..Len(autoSaves) : autoSaves[k].at = eventTimes[i] + AUTOSAVE_DELAY}

\* C23: a burst of text-change events, each less than AUTOSAVE_DELAY after
\* the previous one, triggers exactly one auto-save; it starts
\* AUTOSAVE_DELAY after the last event of the burst and carries the editor
\* content of that moment.
C23_OneSavePerBurst ==
  /\ \A k \in 1..Len(autoSaves) :
       \E i \in 1..Len(eventTimes) :
         /\ LastOfBurst(i)
         /\ k \in SavesOfEvent(i)
         /\ autoSaves[k].content = i
  /\ \A i \in 1..Len(eventTimes) :
       /\ Cardinality(SavesOfEvent(i)) <= 1
       /\ (LastOfBurst(i) /\ eventTimes[i] + AUTOSAVE_DELAY < now)
            => Cardinality(SavesOfEvent(i)) = 1

\* Three events one second apart were followed by one auto-save two seconds
\* after the third, carrying the third revision.
C23_Witness ==
  /\ Len(eventTimes) = 3
  /\ eventTimes[2] - eventTimes[1] = TickMs
  /\ eventTimes[3] - eventTimes[2] = TickMs
  /\ autoSaves = <<[at |-> eventTimes[3] + AUTOSAVE_DELAY, content |-> 3]>>
  /\ now > eventTimes[3] + AUTOSAVE_DELAY

----------------------------------------------------------------------------
(* Claims about the splice strategies                                      *)

\* What directQuillUpdate is to be asked for the strategy s on document d.
StrategyOptions(s, d) ==
  IF s = "replace-paragraph-1"
    THEN [NoOptions EXCEPT !.position = "replace-paragraph",
                           !.paragraphIndex = 0]
  ELSE IF s = "replace-paragraph-2"
    THEN [NoOptions EXCEPT !.position = "replace-paragraph",
                           !.paragraphIndex = 1]
  ELSE IF s = "replace-last-paragraph"
    THEN [NoOptions EXCEPT
            !.position = "replace-paragraph",
            !.paragraphIndex = Len(analyzeDocumentStructure(d).paragraphs) - 1]
  ELSE [NoOptions EXCEPT !.position = s]

\* C25: on each path that applies a suggestion by the user's request, the
\* document becomes what the strategy interpretRequest returned gives: the
\* targeted heading or paragraph is replaced when the document has it, and
\* the suggestion is appended only for 'end' or for an absent target.
C25_StrategyCarriedOut ==
  (updateVia \in {"apply", "call"} /\ updateRequest # NoRequest
     /\ updateResult = "true")
    => quillDoc =
         directQuillUpdate(docAtUpdate, updateContent,
                           StrategyOptions(interpretRequest(updateRequest),
                                           docAtUpdate))

====
